---- MODULE Spec2Model ----
(***************************************************************************)
(* A model of the Online-talk relay: the socket.io server of src/server.ts *)
(* (connection identities, per-room presence, message relay, call          *)
(* signaling), the durable roster and message store it reads and writes,   *)
(* and the two client components that drive it (the chat page of           *)
(* src/unnamed/part_000 and the VideoChat component).                      *)
(***************************************************************************)
EXTENDS Integers, Sequences, FiniteSets, TLC

\* ------------------------------------------------------------------ bounds
\* Connections (socket ids), user identities and room ids of the model.
Conns == {"c1", "c2", "c3"}
Users == {"u1", "u2"}
RoomIds == {"A", "B"}
\* The owner of each room: a durable member from the room's creation on.
Owner == [r \in RoomIds |-> IF r = "A" THEN "u1" ELSE "u2"]
\* Handlers suspended at a storage call (a roster fetch, a message create)
\* at one time.
MaxPending == 1
\* The connections that take part in the presence specification.
PresenceConns == {"c1", "c2"}
\* The room of the snapshot specification, and its pending joins at one time.
SnapshotRoom == "A"
MaxSnapshotTasks == 2
\* The joins of the ordering specification pending at one time.
MaxOrderTasks == 2
\* The message specification: its connections, the identity they use and
\* the messages submitted in all.
MsgConns == {"c1", "c2"}
MsgUser == "u1"
MaxMessages == 1
\* The submissions of the send-order specification, pending or stored.
MaxSends == 2
\* The chat specification: its clients, the room they open, the messages
\* they send in all, and the events in flight per connection and direction.
ChatConns == {"c1", "c2"}
ChatRoom == "A"
MaxChatMessages == 1
MaxQueue == 2
\* The call specification: its clients, the streams a client acquires in all,
\* the connection objects it creates in all, and the events in flight per
\* connection and direction.
CallConns == {"c1", "c2"}
MaxStreams == 2
MaxLinks == 2
MaxCallQueue == 2
\* The candidates gathered in all in the candidate specification.
MaxCands == 1
\* The signaling specification: the connections that also use the chat.
SignalChatConns == {"c3"}

\* The roomId values of the scope specification: the ids of the rooms, and a
\* string that is no room's id (the relay takes roomId from the payload as it
\* comes).
WireRoomIds == RoomIds \cup {"video-A"}

\* The clients that close their call in the candidate specification.
IceClosers == {"c1"}

\* The client of the media specification.
MediaConns == {"c1"}

None == "none"

VARIABLES
    conn,         \* connection -> "new" | "live" | "closed" (transport state)
    userSockets,  \* server.ts:14  connection -> bound identity, None when no entry
    sockRooms,    \* socket.io adapter: connection -> the channels it has joined
    onlineUsers,  \* server.ts:13  Map roomId -> Set<userId>, in insertion order
    roster,       \* storage: roomId -> the durable members (prisma.roomMember)
    joinTasks,    \* join-room handlers suspended at `await findMany`: the room,
                  \* and the fetch's state and result (the code uses nothing
                  \* else after the await)
    db,           \* storage: the persisted messages, db[i] has the id i
    sendTasks,    \* send-message handlers suspended at `await message.create`
    out,          \* the events emitted by the last handler step, in order
    last,         \* the last handler step: what ran, for whom, on which room
    currentRoom,  \* part_000:34  per client, the room it shows (None: none)
    messages,     \* part_000:35  per client, its local message list
    roomMembers,  \* part_000:39  per client, the members it shows: id -> online
    http,         \* per client, its HTTP request in flight (None: none)
    upq,          \* per connection, the events sent to the relay, in order
    inbox,        \* per connection, the events sent to the client, in order
    isOpen,       \* video-chat.tsx:9   per client, the isOpen prop of its VideoChat
    localStream,  \* video-chat.tsx:16  per client, the stream held (0: null)
    isAudioOnly,  \* video-chat.tsx:20
    error,        \* video-chat.tsx:19  per client, whether an error is shown
    stopped,      \* per client, the streams whose tracks were stopped
    videoTracks,  \* per client, the streams acquired with a video track
    media,        \* per client, the media acquisitions suspended at an await
    peers,        \* video-chat.tsx:14  per client, peerId -> its link (0: none)
    streams,      \* video-chat.tsx:15  per client, the peerIds with a remote stream
    pcs,          \* per client, the RTCPeerConnection objects it has created
    cap           \* per client, the state values its registered handlers closed over

\* The relay's presence state and the roster it reads.
presVars == <<onlineUsers, roster, joinTasks>>

\* The message store and the submissions in flight.
msgVars == <<db, sendTasks>>

\* The chat page of each client and the two directions of its socket.
chatVars == <<currentRoom, messages, roomMembers, http, upq, inbox>>

\* The VideoChat component of each client.
callVars == <<isOpen, localStream, isAudioOnly, error, stopped, videoTracks, media, peers,
              streams, pcs, cap>>

\* Everything that lives in the clients.
clientVars == <<chatVars, callVars>>

\* Everything that lives in the relay and the storage.
relayVars == <<conn, userSockets, sockRooms, presVars, msgVars, out, last>>

vars == <<conn, userSockets, sockRooms, onlineUsers, roster, joinTasks, db,
          sendTasks, out, last, currentRoom, messages, roomMembers, http, upq,
          inbox,
          isOpen, localStream, isAudioOnly, error, stopped, videoTracks, media, peers,
          streams, pcs, cap>>

\* ------------------------------------------------------------- Map helpers
\* onlineUsers is a JS Map: a sequence of entries [room, users] in insertion
\* order, at most one entry per key.
MapIdx(m, r) == CHOOSE i \in 1..Len(m) : m[i].room = r

\* onlineUsers.has(roomId)
OnlineHas(m, r) == \E i \in 1..Len(m) : m[i].room = r

\* onlineUsers.get(roomId)?.has(userId) || false
OnlineGet(m, r) == IF OnlineHas(m, r) THEN m[MapIdx(m, r)].users ELSE {}

OnlineKeys(m) == {m[i].room : i \in 1..Len(m)}

\* A join that forgets the identity when it is already present.
OnlineAddToggle(m, r, u) ==
    IF OnlineHas(m, r)
    THEN [m EXCEPT ![MapIdx(m, r)].users =
             IF u \in @ THEN @ \ {u} ELSE @ \cup {u}]
    ELSE Append(m, [room |-> r, users |-> {u}])

\* if (!onlineUsers.has(roomId)) onlineUsers.set(roomId, new Set());
\* onlineUsers.get(roomId)?.add(userId);
OnlineAdd(m, r, u) ==
    IF OnlineHas(m, r)
    THEN [m EXCEPT ![MapIdx(m, r)].users = @ \cup {u}]
    ELSE Append(m, [room |-> r, users |-> {u}])

\* onlineUsers.get(roomId)?.delete(userId);
\* if (onlineUsers.get(roomId)?.size === 0) onlineUsers.delete(roomId);
OnlineDelete(m, r, u) ==
    IF ~OnlineHas(m, r) THEN m
    ELSE LET i == MapIdx(m, r)
             rest == m[i].users \ {u}
         IN IF rest = {}
            THEN SubSeq(m, 1, i - 1) \o SubSeq(m, i + 1, Len(m))
            ELSE [m EXCEPT ![i].users = rest]

\* A disconnect loop that stops after the first room it cleans.
OnlineSweepFirst(m, u) ==
    IF \E i \in 1..Len(m) : u \in m[i].users
    THEN LET i == CHOOSE j \in 1..Len(m) :
                      u \in m[j].users /\ \A k \in 1..(j - 1) : u \notin m[k].users
         IN IF m[i].users = {u}
            THEN SubSeq(m, 1, i - 1) \o SubSeq(m, i + 1, Len(m))
            ELSE [m EXCEPT ![i].users = @ \ {u}]
    ELSE m

\* A disconnect loop that takes the identity out and keeps emptied entries.
OnlineSweepKeepEmpty(m, u) ==
    [i \in 1..Len(m) |-> [room |-> m[i].room, users |-> m[i].users \ {u}]]

\* The disconnect loop: every entry holding the identity loses it, and is
\* deleted when that leaves it empty.
OnlineSweep(m, u) ==
    LET keep == SelectSeq(m, LAMBDA e : ~(u \in e.users /\ e.users \ {u} = {}))
    IN [i \in 1..Len(keep) |-> [room |-> keep[i].room, users |-> keep[i].users \ {u}]]

\* The entries the disconnect loop acts on, in iteration order.
OnlineHolding(m, u) == SelectSeq(m, LAMBDA e : u \in e.users)

\* ---------------------------------------------------------------- emission
\* One emitted event: its name, how it was addressed ("all" io.emit, "room"
\* io.to(ch).emit, "others" socket.to(ch).emit, "socket" socket.emit), the
\* channel, the connections it is delivered to, and its payload.
Emit(ev, scope, ch, to, arg) ==
    [ev |-> ev, scope |-> scope, ch |-> ch, to |-> to, arg |-> arg]

\* The chat channel of a room is the room id itself: socket.join(roomId).
ChatChannel(r) == r

\* The call channel of a room: socket.join(`video-${roomId}`).
VideoChannel(r) == "video-" \o r

Channels == {ChatChannel(r) : r \in RoomIds} \cup {VideoChannel(r) : r \in RoomIds}

\* The connections in a socket.io room.
InRoom(sr, ch) == {c \in Conns : ch \in sr[c]}

Live(cn) == {c \in Conns : cn[c] = "live"}

\* What a handler step records of itself: the handler, its connection and
\* room, whether it got past its guards (or its storage call succeeded), and
\* whether the step before it was the same handler on the same arguments.
Step(op, c, r, ok) ==
    [op |-> op, conn |-> c, room |-> r, ok |-> ok,
     rep |-> last.op = op /\ last.conn = c /\ last.room = r /\ last.ok = ok]

\* useState([]) of roomMembers: nobody shown.
NoMembers == [u \in {} |-> FALSE]

\* No HTTP request in flight.
NoRequest == [kind |-> None]

\* useState({}) of peers: no link for any identity.
NoPeers == [u \in Users |-> 0]

\* What the handlers of an effect run see of the component's state.
Closure(ls, ps, ss) == [localStream |-> ls, peers |-> ps, streams |-> ss]

\* -------------------------------------------------------------------- init
Init ==
    /\ conn = [c \in Conns |-> "new"]
    /\ userSockets = [c \in Conns |-> None]
    /\ sockRooms = [c \in Conns |-> {}]
    /\ onlineUsers = <<>>
    /\ roster = [r \in RoomIds |-> {Owner[r]}]
    /\ joinTasks = <<>>
    /\ db = <<>>
    /\ sendTasks = <<>>
    /\ out = <<>>
    /\ last = [op |-> "init", conn |-> None, room |-> None, ok |-> TRUE, rep |-> FALSE]
    /\ currentRoom = [c \in Conns |-> None]
    /\ messages = [c \in Conns |-> <<>>]
    /\ roomMembers = [c \in Conns |-> NoMembers]
    /\ http = [c \in Conns |-> NoRequest]
    /\ upq = [c \in Conns |-> <<>>]
    /\ inbox = [c \in Conns |-> <<>>]
    /\ isOpen = [c \in Conns |-> FALSE]
    /\ localStream = [c \in Conns |-> 0]
    /\ isAudioOnly = [c \in Conns |-> FALSE]
    /\ error = [c \in Conns |-> FALSE]
    /\ stopped = [c \in Conns |-> {}]
    /\ videoTracks = [c \in Conns |-> {}]
    /\ media = [c \in Conns |-> <<>>]
    /\ peers = [c \in Conns |-> NoPeers]
    /\ streams = [c \in Conns |-> {}]
    /\ pcs = [c \in Conns |-> <<>>]
    /\ cap = [c \in Conns |-> Closure(0, NoPeers, {})]

\* ------------------------------------------------------ transport, identity
\* io.on("connection"): a new socket with no identity and no room.
Connect(c) ==
    /\ conn[c] = "new"
    /\ conn' = [conn EXCEPT ![c] = "live"]
    /\ out' = <<>>
    /\ last' = Step("connect", c, None, TRUE)
    /\ UNCHANGED <<userSockets, sockRooms, presVars, msgVars>>

\* An identify that keeps the binding a connection already has.
IdentifyOnce(c, u) ==
    /\ conn[c] = "live"
    /\ userSockets' = [userSockets EXCEPT ![c] = IF @ = None THEN u ELSE @]
    /\ out' = <<Emit("user_online", "all", None, Live(conn), u)>>
    /\ last' = Step("identify", c, None, TRUE)
    /\ UNCHANGED <<conn, sockRooms, presVars, msgVars>>

\* socket.on("identify"): bind (overwrite) and broadcast user_online to all.
Identify(c, u) ==
    /\ conn[c] = "live"
    /\ userSockets' = [userSockets EXCEPT ![c] = u]
    /\ out' = <<Emit("user_online", "all", None, Live(conn), u)>>
    /\ last' = Step("identify", c, None, TRUE)
    /\ UNCHANGED <<conn, sockRooms, presVars, msgVars>>

\* ---------------------------------------------------------------- presence
\* A snapshot that marks every member online.
SnapshotAllOnline(members, m, r) == [u \in members |-> TRUE]

\* The roster merged with presence: each fetched member with its online flag.
\* roomMembers.map(m => ({...m.user, online: onlineUsers.get(roomId)?.has(id) || false}))
Snapshot(members, m, r) == [u \in members |-> u \in OnlineGet(m, r)]

RemoveAt(s, i) == SubSeq(s, 1, i - 1) \o SubSeq(s, i + 1, Len(s))

\* socket.on("join-room"), up to `await prisma.roomMember.findMany`.
JoinRoom(c, r) ==
    /\ conn[c] = "live"
    /\ LET u == userSockets[c] IN
       IF u = None
       THEN /\ UNCHANGED <<sockRooms, presVars>>
            /\ last' = Step("join-room", c, r, FALSE)
       ELSE /\ sockRooms' = [sockRooms EXCEPT ![c] = @ \cup {ChatChannel(r)}]
            /\ onlineUsers' = OnlineAdd(onlineUsers, r, u)
            /\ joinTasks' = Append(joinTasks,
                   [room |-> r, st |-> "await", members |-> {}])
            /\ UNCHANGED roster
            /\ last' = Step("join-room", c, r, TRUE)
    /\ out' = <<>>
    /\ UNCHANGED <<conn, userSockets, msgVars>>

\* prisma.roomMember.findMany({where: {roomId}}): the members stored for the
\* id, none for an id that is no room's.
Members(store, r) == IF r \in DOMAIN store THEN store[r] ELSE {}

\* The storage collaborator answers a pending roster fetch: the members of
\* the room as they are now, or a failure.
FetchRoster(i, res) ==
    /\ i \in 1..Len(joinTasks)
    /\ joinTasks[i].st = "await"
    /\ joinTasks' = [joinTasks EXCEPT ![i] =
           IF res = "ok"
           THEN [room |-> @.room, st |-> "ok", members |-> Members(roster, @.room)]
           ELSE [room |-> @.room, st |-> "fail", members |-> {}]]
    /\ out' = <<>>
    /\ last' = Step("fetch-roster", None, joinTasks[i].room, res = "ok")
    /\ UNCHANGED <<conn, userSockets, sockRooms, onlineUsers, roster, msgVars>>

\* socket.on("join-room") after the await: the snapshot is computed from the
\* fetched members and the presence set as it is now and sent to the room;
\* the catch branch only logs.
JoinRoomResume(i) ==
    /\ i \in 1..Len(joinTasks)
    /\ joinTasks[i].st # "await"
    /\ LET t == joinTasks[i] IN
       /\ out' = IF t.st = "ok"
                 THEN <<Emit("room_members_update", "room", ChatChannel(t.room),
                             InRoom(sockRooms, ChatChannel(t.room)),
                             Snapshot(t.members, onlineUsers, t.room))>>
                 ELSE <<>>
       /\ last' = Step("join-room-done", None, t.room, t.st = "ok")
    /\ joinTasks' = RemoveAt(joinTasks, i)
    /\ UNCHANGED <<conn, userSockets, sockRooms, onlineUsers, roster, msgVars>>

\* socket.on("leave-room")
LeaveRoom(c, r) ==
    /\ conn[c] = "live"
    /\ LET u == userSockets[c] IN
       IF u = None
       THEN /\ UNCHANGED <<sockRooms, onlineUsers>>
            /\ out' = <<>>
            /\ last' = Step("leave-room", c, r, FALSE)
       ELSE /\ sockRooms' = [sockRooms EXCEPT ![c] = @ \ {ChatChannel(r)}]
            /\ onlineUsers' = OnlineDelete(onlineUsers, r, u)
            /\ out' = <<Emit("user_offline", "room", ChatChannel(r),
                             InRoom(sockRooms', ChatChannel(r)), u)>>
            /\ last' = Step("leave-room", c, r, TRUE)
    /\ UNCHANGED <<conn, userSockets, roster, joinTasks, msgVars>>

\* A disconnect loop that emits user_offline for every entry of the map.
SweepEventsEveryEntry(m, u, sr) ==
    [i \in 1..Len(m) |->
        Emit("user_offline", "room", ChatChannel(m[i].room),
             InRoom(sr, ChatChannel(m[i].room)), u)]

\* The per-room user_offline events of the disconnect loop, in Map order.
SweepEvents(m, u, sr) ==
    LET hit == OnlineHolding(m, u)
    IN [i \in 1..Len(hit) |->
           Emit("user_offline", "room", ChatChannel(hit[i].room),
                InRoom(sr, ChatChannel(hit[i].room)), u)]

\* socket.on("disconnect"): socket.io has already taken the socket out of
\* every room and out of the namespace when the handler runs.
Disconnect(c) ==
    /\ conn[c] = "live"
    /\ conn' = [conn EXCEPT ![c] = "closed"]
    /\ sockRooms' = [sockRooms EXCEPT ![c] = {}]
    /\ LET u == userSockets[c] IN
       /\ IF u # None
          THEN /\ onlineUsers' = OnlineSweep(onlineUsers, u)
               /\ userSockets' = [userSockets EXCEPT ![c] = None]
               /\ out' = SweepEvents(onlineUsers, u, sockRooms') \o
                         <<Emit("user_offline", "all", None, Live(conn'), u)>>
          ELSE /\ UNCHANGED <<onlineUsers, userSockets>>
               /\ out' = <<>>
       /\ last' = Step("disconnect", c, None, u # None)
    /\ UNCHANGED <<roster, joinTasks, msgVars>>

\* ------------------------------------------------------------ durable roster
\* POST /api/rooms/[roomId]/members: the session user becomes a member.
RosterAdd(u, r) ==
    /\ u \notin roster[r]
    /\ roster' = [roster EXCEPT ![r] = @ \cup {u}]
    /\ out' = <<>>
    /\ last' = Step("roster-add", None, r, TRUE)
    /\ UNCHANGED <<conn, userSockets, sockRooms, onlineUsers, joinTasks, msgVars>>

\* DELETE /api/rooms/[roomId]/members: a member other than the owner leaves.
RosterRemove(u, r) ==
    /\ u \in roster[r]
    /\ u # Owner[r]
    /\ roster' = [roster EXCEPT ![r] = @ \ {u}]
    /\ out' = <<>>
    /\ last' = Step("roster-remove", None, r, TRUE)
    /\ UNCHANGED <<conn, userSockets, sockRooms, onlineUsers, joinTasks, msgVars>>

\* ------------------------------------------------------------ message relay
\* A persisted message as storage returns it.
Message(id, r, u, content) ==
    [id |-> id, room |-> r, user |-> u, content |-> content,
     isEdited |-> FALSE, isDeleted |-> FALSE]

\* prisma.message.create({data: {content, type, imageUrl, roomId, userId}}):
\* the record the store assigns the next id to.
Created(t, store) == Message(Len(store) + 1, t.room, t.user, t.content)

\* socket.on("send-message"), up to `await prisma.message.create`: the room,
\* the author and the content are taken from the payload as they come.
SendMessage(c, r, u, content) ==
    /\ conn[c] = "live"
    /\ sendTasks' = Append(sendTasks,
           [conn |-> c, room |-> r, user |-> u, content |-> content,
            st |-> "await", rec |-> Message(0, r, u, content)])
    /\ out' = <<>>
    /\ last' = Step("send-message", c, r, TRUE)
    /\ UNCHANGED <<conn, userSockets, sockRooms, presVars, db>>

\* The storage collaborator answers a pending create: the record is stored
\* under a fresh id and returned, or the create fails and stores nothing.
PersistMessage(i, res) ==
    /\ i \in 1..Len(sendTasks)
    /\ sendTasks[i].st = "await"
    /\ LET t == sendTasks[i] IN
       IF res = "ok"
       THEN /\ db' = Append(db, Created(t, db))
            /\ sendTasks' = [sendTasks EXCEPT ![i] =
                   [conn |-> t.conn, room |-> t.room, user |-> t.user,
                    content |-> t.content, st |-> "ok", rec |-> Created(t, db)]]
       ELSE /\ db' = db
            /\ sendTasks' = [sendTasks EXCEPT ![i] =
                   [conn |-> t.conn, room |-> t.room, user |-> t.user,
                    content |-> t.content, st |-> "fail", rec |-> t.rec]]
    /\ out' = <<>>
    /\ last' = Step("persist-message", sendTasks[i].conn, sendTasks[i].room, res = "ok")
    /\ UNCHANGED <<conn, userSockets, sockRooms, presVars>>

\* A relay that reports a failed create to the room.
SendFailedToRoom(t) ==
    <<Emit("error", "room", ChatChannel(t.room),
           InRoom(sockRooms, ChatChannel(t.room)), "Failed to save message")>>

\* A relay whose catch branch only logs.
SendFailedSilently(t) == <<>>

\* catch: socket.emit("error", {message: "Failed to save message"}); a socket
\* that has disconnected meanwhile receives nothing.
SendFailed(t) ==
    <<Emit("error", "socket", None,
           IF conn[t.conn] = "live" THEN {t.conn} ELSE {}, "Failed to save message")>>

\* A relay that broadcasts a new message to every connection.
SendSucceededToAll(t) ==
    <<Emit("new-message", "all", None, Live(conn), t.rec)>>

\* A relay that sends the new message to the room twice.
SendSucceededTwice(t) ==
    <<Emit("new-message", "room", ChatChannel(t.room),
           InRoom(sockRooms, ChatChannel(t.room)), t.rec),
      Emit("new-message", "room", ChatChannel(t.room),
           InRoom(sockRooms, ChatChannel(t.room)), t.rec)>>

\* io.to(roomId).emit("new-message", newMessage)
SendSucceeded(t) ==
    <<Emit("new-message", "room", ChatChannel(t.room),
           InRoom(sockRooms, ChatChannel(t.room)), t.rec)>>

\* socket.on("send-message") after the await.
SendResume(i) ==
    /\ i \in 1..Len(sendTasks)
    /\ sendTasks[i].st # "await"
    /\ LET t == sendTasks[i] IN
       /\ out' = IF t.st = "ok" THEN SendSucceeded(t) ELSE SendFailed(t)
       /\ last' = Step("send-message-done", t.conn, t.room, t.st = "ok")
    /\ sendTasks' = RemoveAt(sendTasks, i)
    /\ UNCHANGED <<conn, userSockets, sockRooms, presVars, db>>

\* socket.on("message_updated"): fan out the id and the new content to the
\* room; nothing is checked and nothing is stored.
MessageUpdated(c, r, mid, content) ==
    /\ conn[c] = "live"
    /\ out' = <<Emit("message_updated", "room", ChatChannel(r),
                     InRoom(sockRooms, ChatChannel(r)),
                     [messageId |-> mid, content |-> content])>>
    /\ last' = Step("message_updated", c, r, TRUE)
    /\ UNCHANGED <<conn, userSockets, sockRooms, presVars, msgVars>>

\* A deletion relay that leaves the sender out.
MessageDeletedToOthers(c, r, mid) ==
    /\ conn[c] = "live"
    /\ out' = <<Emit("message_deleted", "others", ChatChannel(r),
                     InRoom(sockRooms, ChatChannel(r)) \ {c}, [messageId |-> mid])>>
    /\ last' = Step("message_deleted", c, r, TRUE)
    /\ UNCHANGED <<conn, userSockets, sockRooms, presVars, msgVars>>

\* socket.on("message_deleted"): fan out the id to the room; nothing is
\* checked and nothing is stored.
MessageDeleted(c, r, mid) ==
    /\ conn[c] = "live"
    /\ out' = <<Emit("message_deleted", "room", ChatChannel(r),
                     InRoom(sockRooms, ChatChannel(r)), [messageId |-> mid])>>
    /\ last' = Step("message_deleted", c, r, TRUE)
    /\ UNCHANGED <<conn, userSockets, sockRooms, presVars, msgVars>>

\* ---------------------------------------------------------- call signaling
\* A join announced with io.to(...): the joiner is told of itself.
JoinVideoChatToRoom(c, r, u) ==
    /\ conn[c] = "live"
    /\ sockRooms' = [sockRooms EXCEPT ![c] = @ \cup {VideoChannel(r)}]
    /\ out' = <<Emit("user-joined-video", "room", VideoChannel(r),
                     InRoom(sockRooms', VideoChannel(r)), [userId |-> u])>>
    /\ last' = Step("join-video-chat", c, r, TRUE)
    /\ UNCHANGED <<conn, userSockets, presVars, msgVars>>

\* socket.on("join-video-chat"): enter the call channel, tell the others.
\* socket.to(...) leaves the sender out.
JoinVideoChat(c, r, u) ==
    /\ conn[c] = "live"
    /\ sockRooms' = [sockRooms EXCEPT ![c] = @ \cup {VideoChannel(r)}]
    /\ out' = <<Emit("user-joined-video", "others", VideoChannel(r),
                     InRoom(sockRooms', VideoChannel(r)) \ {c}, [userId |-> u])>>
    /\ last' = Step("join-video-chat", c, r, TRUE)
    /\ UNCHANGED <<conn, userSockets, presVars, msgVars>>

\* A leave announced before the socket has left: the leaver is told too.
LeaveVideoChatEmitFirst(c, r, u) ==
    /\ conn[c] = "live"
    /\ sockRooms' = [sockRooms EXCEPT ![c] = @ \ {VideoChannel(r)}]
    /\ out' = <<Emit("user-left-video", "room", VideoChannel(r),
                     InRoom(sockRooms, VideoChannel(r)), [userId |-> u])>>
    /\ last' = Step("leave-video-chat", c, r, TRUE)
    /\ UNCHANGED <<conn, userSockets, presVars, msgVars>>

\* socket.on("leave-video-chat"): leave the call channel, tell who remains.
LeaveVideoChat(c, r, u) ==
    /\ conn[c] = "live"
    /\ sockRooms' = [sockRooms EXCEPT ![c] = @ \ {VideoChannel(r)}]
    /\ out' = <<Emit("user-left-video", "room", VideoChannel(r),
                     InRoom(sockRooms', VideoChannel(r)), [userId |-> u])>>
    /\ last' = Step("leave-video-chat", c, r, TRUE)
    /\ UNCHANGED <<conn, userSockets, presVars, msgVars>>

\* A signaling relay that reaches every connection.
SignalToAll(c, ev, r, u, target, data) ==
    /\ conn[c] = "live"
    /\ out' = <<Emit(ev, "all", None, Live(conn), [userId |-> u, data |-> data])>>
    /\ last' = Step(ev, c, r, TRUE)
    /\ UNCHANGED <<conn, userSockets, sockRooms, presVars, msgVars>>

\* socket.on("video-offer" | "video-answer" | "ice-candidate"): the sender's
\* identity and the payload go to the whole call channel, the sender's own
\* connection included when it is in it; targetUserId is read and dropped.
Signal(c, ev, r, u, target, data) ==
    /\ conn[c] = "live"
    /\ out' = <<Emit(ev, "room", VideoChannel(r),
                     InRoom(sockRooms, VideoChannel(r)), [userId |-> u, data |-> data])>>
    /\ last' = Step(ev, c, r, TRUE)
    /\ UNCHANGED <<conn, userSockets, sockRooms, presVars, msgVars>>

VideoOffer(c, r, u, target, offer) == Signal(c, "video-offer", r, u, target, offer)

VideoAnswer(c, r, u, target, answer) == Signal(c, "video-answer", r, u, target, answer)

IceCandidate(c, r, u, target, candidate) == Signal(c, "ice-candidate", r, u, target, candidate)

\* The events of the call negotiation.
SignalEvents == {"video-offer", "video-answer", "ice-candidate"}

\* --------------------------------------------------------------- chat client
\* The identity of each client's session (next-auth), which it identifies with.
SessionUser == [c \in Conns |-> IF c = "c1" THEN "u1" ELSE "u2"]

\* The events whose handlers write the local message list.
ChatEvents == {"new-message", "message_updated"}

\* What a handler step's events add to the connections' inboxes.
Enqueue(ib, o) ==
    [d \in Conns |-> ib[d] \o SelectSeq(o, LAMBDA e : d \in e.to /\ e.ev \in ChatEvents)]

\* A relay step seen from the clients: its events travel to their inboxes.
Relayed ==
    /\ inbox' = Enqueue(inbox, out')
    /\ \A d \in Conns : Len(inbox'[d]) <= MaxQueue
    /\ UNCHANGED <<currentRoom, messages, roomMembers, http>>

\* connectToSocket(userId): socket.connect(), and identify on "connect".
ChatConnect(c) ==
    /\ Connect(c)
    /\ upq' = [upq EXCEPT ![c] = Append(@, [ev |-> "identify", user |-> SessionUser[c]])]
    /\ UNCHANGED <<currentRoom, messages, roomMembers, http, inbox>>

\* handleJoinRoom up to the fetch: leave the room shown, join the new one.
ChatJoinRoom(c, r) ==
    /\ conn[c] = "live"
    /\ http[c] = NoRequest
    /\ upq' = [upq EXCEPT ![c] =
           (IF currentRoom[c] # None
            THEN Append(@, [ev |-> "leave-room", room |-> currentRoom[c]])
            ELSE @) \o <<[ev |-> "join-room", room |-> r]>>]
    /\ Len(upq'[c]) <= MaxQueue
    /\ currentRoom' = [currentRoom EXCEPT ![c] = r]
    /\ http' = [http EXCEPT ![c] = [kind |-> "history", room |-> r, st |-> "await"]]
    /\ UNCHANGED <<conn, userSockets, sockRooms, presVars, msgVars, out, last,
                   messages, roomMembers, inbox>>

\* GET /api/rooms/[roomId]/messages: the messages of the room as stored.
History(store, r) == SelectSeq(store, LAMBDA m : m.room = r)

\* The history request is answered by the store, or fails.
HistoryFetch(c, res) ==
    /\ http[c].kind = "history"
    /\ http[c].st = "await"
    /\ http' = [http EXCEPT ![c] =
           IF res = "ok"
           THEN [kind |-> "history", room |-> @.room, st |-> "ok",
                 data |-> History(db, @.room)]
           ELSE [kind |-> "history", room |-> @.room, st |-> "fail"]]
    /\ UNCHANGED <<conn, userSockets, sockRooms, presVars, msgVars, out, last,
                   currentRoom, messages, roomMembers, upq, inbox>>

\* handleJoinRoom after the fetch: setMessages(data), or setError.
HistoryDone(c) ==
    /\ http[c].kind = "history"
    /\ http[c].st # "await"
    /\ messages' = [messages EXCEPT ![c] = IF http[c].st = "ok" THEN http[c].data ELSE @]
    /\ http' = [http EXCEPT ![c] = NoRequest]
    /\ UNCHANGED <<conn, userSockets, sockRooms, presVars, msgVars, out, last,
                   currentRoom, roomMembers, upq, inbox>>

\* handleSendMessage (text): the room shown, the trimmed input, the session user.
ChatSend(c, content) ==
    /\ conn[c] = "live"
    /\ currentRoom[c] # None
    /\ Len(upq[c]) < MaxQueue
    /\ upq' = [upq EXCEPT ![c] = Append(@,
           [ev |-> "send-message", room |-> currentRoom[c],
            user |-> SessionUser[c], content |-> content])]
    /\ UNCHANGED <<conn, userSockets, sockRooms, presVars, msgVars, out, last,
                   currentRoom, messages, roomMembers, http, inbox>>

\* handleEditMessage up to the fetch, on a message of the list that the
\* session user wrote (the only ones the list offers to edit).
ChatEdit(c, i, content) ==
    /\ conn[c] = "live"
    /\ currentRoom[c] # None
    /\ http[c] = NoRequest
    /\ i \in 1..Len(messages[c])
    /\ messages[c][i].user = SessionUser[c]
    /\ ~messages[c][i].isDeleted
    /\ http' = [http EXCEPT ![c] =
           [kind |-> "patch", room |-> currentRoom[c], st |-> "await",
            messageId |-> messages[c][i].id, content |-> content]]
    /\ UNCHANGED <<conn, userSockets, sockRooms, presVars, msgVars, out, last,
                   currentRoom, messages, roomMembers, upq, inbox>>

\* prisma.message.update({data: {content, isEdited: true}})
Edited(m, content) == [m EXCEPT !.content = content, !.isEdited = TRUE]

\* PATCH /api/rooms/[roomId]/messages/[messageId]: the message must exist in
\* that room and belong to the session user; then it is updated and returned.
PatchMessage(c, res) ==
    /\ http[c].kind = "patch"
    /\ http[c].st = "await"
    /\ LET q == http[c]
           found == /\ q.messageId \in 1..Len(db)
                    /\ db[q.messageId].room = q.room
                    /\ db[q.messageId].user = SessionUser[c]
       IN IF res = "ok" /\ found
          THEN /\ db' = [db EXCEPT ![q.messageId] = Edited(@, q.content)]
               /\ http' = [http EXCEPT ![c] =
                      [kind |-> "patch", room |-> q.room, st |-> "ok",
                       messageId |-> q.messageId, content |-> q.content,
                       data |-> Edited(db[q.messageId], q.content)]]
          ELSE /\ db' = db
               /\ http' = [http EXCEPT ![c] =
                      [kind |-> "patch", room |-> q.room, st |-> "fail",
                       messageId |-> q.messageId, content |-> q.content]]
    /\ UNCHANGED <<conn, userSockets, sockRooms, presVars, sendTasks, out, last,
                   currentRoom, messages, roomMembers, upq, inbox>>

\* setMessages(prev => prev.map(msg => msg.id === messageId ? updated : msg))
ReplaceById(list, mid, updated) ==
    [i \in 1..Len(list) |-> IF list[i].id = mid THEN updated ELSE list[i]]

\* handleEditMessage after the fetch: replace the message in the list and
\* tell the room, or setError.
ChatEditDone(c) ==
    /\ http[c].kind = "patch"
    /\ http[c].st # "await"
    /\ IF http[c].st = "ok"
       THEN /\ messages' = [messages EXCEPT ![c] =
                   ReplaceById(@, http[c].messageId, http[c].data)]
            /\ Len(upq[c]) < MaxQueue
            /\ upq' = [upq EXCEPT ![c] = Append(@,
                   [ev |-> "message_updated", room |-> http[c].room,
                    messageId |-> http[c].messageId, content |-> http[c].content])]
       ELSE UNCHANGED <<messages, upq>>
    /\ http' = [http EXCEPT ![c] = NoRequest]
    /\ UNCHANGED <<conn, userSockets, sockRooms, presVars, msgVars, out, last,
                   currentRoom, roomMembers, inbox>>

\* A message_updated handler that takes the content but leaves the mark.
OnMessageUpdatedUnmarked(list, p) ==
    [i \in 1..Len(list) |->
        IF list[i].id = p.messageId
        THEN [list[i] EXCEPT !.content = p.content]
        ELSE list[i]]

\* socket.on("message_updated") of the chat page:
\* msg.id === messageId ? { ...msg, content, isEdited: true } : msg
OnMessageUpdated(list, p) ==
    [i \in 1..Len(list) |->
        IF list[i].id = p.messageId
        THEN [list[i] EXCEPT !.content = p.content, !.isEdited = TRUE]
        ELSE list[i]]

\* socket.on("new-message") of the chat page: setMessages(prev => [...prev, message])
OnNewMessage(list, m) == Append(list, m)

\* The client takes the next event of its socket and runs its handler.
ChatReceive(c) ==
    /\ inbox[c] # <<>>
    /\ LET e == Head(inbox[c]) IN
       messages' = [messages EXCEPT ![c] =
           IF e.ev = "new-message" THEN OnNewMessage(@, e.arg)
           ELSE OnMessageUpdated(@, e.arg)]
    /\ inbox' = [inbox EXCEPT ![c] = Tail(@)]
    /\ UNCHANGED <<conn, userSockets, sockRooms, presVars, msgVars, out, last,
                   currentRoom, roomMembers, http, upq>>

\* The relay takes the next event of a connection and runs its handler.
RelayReceive(c) ==
    /\ upq[c] # <<>>
    /\ upq' = [upq EXCEPT ![c] = Tail(@)]
    /\ LET e == Head(upq[c]) IN
       CASE e.ev = "identify" -> Identify(c, e.user)
         [] e.ev = "join-room" -> JoinRoom(c, e.room)
         [] e.ev = "leave-room" -> LeaveRoom(c, e.room)
         [] e.ev = "send-message" -> SendMessage(c, e.room, e.user, e.content)
         [] e.ev = "message_updated" -> MessageUpdated(c, e.room, e.messageId, e.content)
    /\ Relayed

\* ------------------------------------------------- chat client, member list
\* The events whose handlers write the member list.
PresenceEvents == {"room_members_update", "user_online", "user_offline"}

\* What a handler step's presence events add to the connections' inboxes.
EnqueuePresence(ib, o) ==
    [d \in Conns |-> ib[d] \o SelectSeq(o, LAMBDA e : d \in e.to /\ e.ev \in PresenceEvents)]

\* socket.on("room_members_update"): setRoomMembers(members)
OnRoomMembersUpdate(list, members) == members

\* socket.on("user_online"): the member of that id, if shown, is set online.
OnUserOnline(list, u) == [m \in DOMAIN list |-> IF m = u THEN TRUE ELSE list[m]]

\* socket.on("user_offline"): the member of that id, if shown, is set offline.
OnUserOffline(list, u) == [m \in DOMAIN list |-> IF m = u THEN FALSE ELSE list[m]]

\* The client takes the next presence event of its socket and runs its handler.
PresenceReceive(c) ==
    /\ inbox[c] # <<>>
    /\ LET e == Head(inbox[c]) IN
       roomMembers' = [roomMembers EXCEPT ![c] =
           CASE e.ev = "room_members_update" -> OnRoomMembersUpdate(@, e.arg)
             [] e.ev = "user_online" -> OnUserOnline(@, e.arg)
             [] e.ev = "user_offline" -> OnUserOffline(@, e.arg)]
    /\ inbox' = [inbox EXCEPT ![c] = Tail(@)]
    /\ UNCHANGED <<conn, userSockets, sockRooms, presVars, msgVars, out, last,
                   currentRoom, messages, http, upq>>

\* The relay takes the next event of a connection and runs its handler; the
\* presence events it emits travel to the inboxes.
PresenceRelayReceive(c) ==
    /\ upq[c] # <<>>
    /\ upq' = [upq EXCEPT ![c] = Tail(@)]
    /\ LET e == Head(upq[c]) IN
       CASE e.ev = "identify" -> Identify(c, e.user)
         [] e.ev = "join-room" -> JoinRoom(c, e.room)
         [] e.ev = "leave-room" -> LeaveRoom(c, e.room)
    /\ inbox' = EnqueuePresence(inbox, out')
    /\ UNCHANGED <<currentRoom, messages, roomMembers, http>>

\* A suspended join-room goes on at the relay; what it emits travels to the
\* inboxes.
PresenceRelayResume(i) ==
    /\ JoinRoomResume(i)
    /\ inbox' = EnqueuePresence(inbox, out')
    /\ UNCHANGED <<currentRoom, messages, roomMembers, http, upq>>

\* disconnectFromSocket() in the effect cleanup, with nothing left to send:
\* the handlers are off, what was on its way to the client is dropped, and the
\* relay's disconnect handler runs.
ChatDisconnect(c) ==
    /\ upq[c] = <<>>
    /\ Disconnect(c)
    /\ inbox' = [EnqueuePresence(inbox, out') EXCEPT ![c] = <<>>]
    /\ UNCHANGED <<currentRoom, messages, roomMembers, http, upq>>

\* --------------------------------------------------------------- call client
\* The roomId prop of every VideoChat: the room the page shows.
CallRoom == "A"

\* The events the VideoChat listens to.
CallEvents == SignalEvents \cup {"user-joined-video", "user-left-video"}

\* What a relay step's events add to the inboxes of the call clients.
EnqueueCall(ib, o) ==
    [d \in Conns |-> ib[d] \o SelectSeq(o, LAMBDA e : d \in e.to /\ e.ev \in CallEvents)]

\* Nothing left to do on a link.
NoTodo == [kind |-> None, tracks |-> FALSE]

\* createPeerConnection(peerId) as the registered handlers call it: a new
\* RTCPeerConnection with the tracks of the localStream they closed over.
CreatePeerConnection(c, peerId) ==
    [peer |-> peerId, tracks |-> cap[c].localStream, local |-> None,
     remote |-> None, closed |-> FALSE, cands |-> 0, sent |-> 0, todo |-> NoTodo]

\* socket.emit from client c.
Send(q, c, e) == [q EXCEPT ![c] = Append(@, e)]

\* The effect body when isOpen turns true: initializeMediaStream() starts and
\* the five handlers are registered, closing over this render's state.
OpenCall(c) ==
    /\ conn[c] = "live"
    /\ ~isOpen[c]
    /\ isOpen' = [isOpen EXCEPT ![c] = TRUE]
    /\ cap' = [cap EXCEPT ![c] = Closure(localStream[c], peers[c], streams[c])]
    /\ media' = [media EXCEPT ![c] =
           Append(@, [by |-> "open", phase |-> "check", video |-> FALSE])]
    /\ UNCHANGED <<relayVars, chatVars, localStream, isAudioOnly, error, stopped, videoTracks,
                   peers, streams, pcs>>

\* The links of a peers map, closed.
CloseAll(links, ps) ==
    [i \in 1..Len(links) |->
        IF \E u \in Users : ps[u] = i THEN [links[i] EXCEPT !.closed = TRUE] ELSE links[i]]

\* The effect cleanup when isOpen turns false: stop the tracks of the stream
\* closed over, close the links closed over, unregister, emit leave-video-chat.
CloseCall(c) ==
    /\ conn[c] = "live"
    /\ isOpen[c]
    /\ isOpen' = [isOpen EXCEPT ![c] = FALSE]
    /\ stopped' = [stopped EXCEPT ![c] = @ \cup ({cap[c].localStream} \ {0})]
    /\ pcs' = [pcs EXCEPT ![c] = CloseAll(@, cap[c].peers)]
    /\ upq' = Send(upq, c, [ev |-> "leave-video-chat", room |-> CallRoom,
                            user |-> SessionUser[c]])
    /\ UNCHANGED <<relayVars, currentRoom, messages, roomMembers, http, inbox, localStream,
                   isAudioOnly, error, videoTracks, media, peers, streams, cap>>

\* checkMediaDevices settles: both devices ("av"), the microphone only
\* ("audio"), or no microphone ("fail", which the caller catches).
MediaChecked(c, i, dev) ==
    /\ i \in 1..Len(media[c])
    /\ media[c][i].phase = "check"
    /\ IF dev = "fail"
       THEN /\ error' = [error EXCEPT ![c] = TRUE]
            /\ media' = [media EXCEPT ![c] = RemoveAt(@, i)]
            /\ UNCHANGED isAudioOnly
       ELSE /\ isAudioOnly' = [isAudioOnly EXCEPT ![c] = (dev = "audio")]
            /\ media' = [media EXCEPT ![c][i] =
                   [by |-> @.by, phase |-> "acquire", video |-> (dev = "av")]]
            /\ UNCHANGED error
    /\ UNCHANGED <<relayVars, chatVars, isOpen, localStream, stopped, videoTracks, peers,
                   streams, pcs, cap>>

\* An acquisition that always announces a call with video.
MediaAcquiredAsVideo(c, i, res) ==
    /\ i \in 1..Len(media[c])
    /\ media[c][i].phase = "acquire"
    /\ media' = [media EXCEPT ![c] = RemoveAt(@, i)]
    /\ IF res = "ok"
       THEN /\ localStream' = [localStream EXCEPT ![c] = @ + 1]
            /\ videoTracks' = [videoTracks EXCEPT ![c] =
                   IF media[c][i].video THEN @ \cup {localStream[c] + 1} ELSE @]
            /\ error' = [error EXCEPT ![c] = FALSE]
            /\ upq' = Send(upq, c, [ev |-> "join-video-chat", room |-> CallRoom,
                                    user |-> SessionUser[c],
                                    isAudioOnly |-> FALSE])
       ELSE /\ error' = [error EXCEPT ![c] = TRUE]
            /\ UNCHANGED <<localStream, videoTracks, upq>>
    /\ UNCHANGED <<relayVars, currentRoom, messages, roomMembers, http, inbox, isOpen,
                   isAudioOnly, stopped, peers, streams, pcs, cap>>

\* getUserMedia settles: setLocalStream, setError(null) and join-video-chat,
\* or setError. Neither looks at isOpen.
MediaAcquired(c, i, res) ==
    /\ i \in 1..Len(media[c])
    /\ media[c][i].phase = "acquire"
    /\ media' = [media EXCEPT ![c] = RemoveAt(@, i)]
    /\ IF res = "ok"
       THEN /\ localStream' = [localStream EXCEPT ![c] = @ + 1]
            /\ videoTracks' = [videoTracks EXCEPT ![c] =
                   IF media[c][i].video THEN @ \cup {localStream[c] + 1} ELSE @]
            /\ error' = [error EXCEPT ![c] = FALSE]
            /\ upq' = Send(upq, c, [ev |-> "join-video-chat", room |-> CallRoom,
                                    user |-> SessionUser[c],
                                    isAudioOnly |-> ~media[c][i].video])
       ELSE /\ error' = [error EXCEPT ![c] = TRUE]
            /\ UNCHANGED <<localStream, videoTracks, upq>>
    /\ UNCHANGED <<relayVars, currentRoom, messages, roomMembers, http, inbox, isOpen,
                   isAudioOnly, stopped, peers, streams, pcs, cap>>

\* "Retry with video": initializeMediaStream() again.
Retry(c) ==
    /\ isOpen[c]
    /\ error[c]
    /\ media' = [media EXCEPT ![c] =
           Append(@, [by |-> "retry", phase |-> "check", video |-> FALSE])]
    /\ UNCHANGED <<relayVars, chatVars, isOpen, localStream, isAudioOnly, error,
                   stopped, videoTracks, peers, streams, pcs, cap>>

\* "Try audio only": setIsAudioOnly(true) and getUserMedia without video.
TryAudioOnly(c) ==
    /\ isOpen[c]
    /\ error[c]
    /\ isAudioOnly' = [isAudioOnly EXCEPT ![c] = TRUE]
    /\ media' = [media EXCEPT ![c] =
           Append(@, [by |-> "audio-only", phase |-> "acquire", video |-> FALSE])]
    /\ UNCHANGED <<relayVars, chatVars, isOpen, localStream, error, stopped, videoTracks,
                   peers, streams, pcs, cap>>

\* setPeers(prev => ({...prev, [peerId]: pc})) on a new connection object.
AddLink(c, pc) ==
    /\ pcs' = [pcs EXCEPT ![c] = Append(@, pc)]
    /\ peers' = [peers EXCEPT ![c][pc.peer] = Len(pcs[c]) + 1]

\* socket.on("user-joined-video"), up to its first await: a new link for the
\* peer; the offer is made only if the handler closed over a stream.
OnUserJoinedVideo(c, p) ==
    /\ AddLink(c, [CreatePeerConnection(c, p.userId) EXCEPT
                     !.todo = IF cap[c].localStream # 0
                              THEN [kind |-> "offer", tracks |-> FALSE]
                              ELSE NoTodo])
    /\ UNCHANGED streams

\* socket.on("video-offer"), up to its first await: a new link for the sender.
OnVideoOffer(c, p) ==
    /\ AddLink(c, [CreatePeerConnection(c, p.userId) EXCEPT
                     !.todo = [kind |-> "answer", tracks |-> p.data.tracks]])
    /\ UNCHANGED streams

\* RTCPeerConnection.setRemoteDescription(answer): only a connection that is
\* open and has sent an offer takes an answer; otherwise the call rejects.
TakesAnswer(pc) == ~pc.closed /\ pc.local = "offer" /\ pc.remote = None

\* socket.on("video-answer"): the link is looked up in the peers map the
\* handler closed over; ontrack fires when the answer brings tracks.
OnVideoAnswer(c, p) ==
    LET i == cap[c].peers[p.userId] IN
    IF i # 0 /\ TakesAnswer(pcs[c][i])
    THEN /\ pcs' = [pcs EXCEPT ![c][i].remote = "answer"]
         /\ streams' = [streams EXCEPT ![c] =
                IF p.data.tracks THEN @ \cup {p.userId} ELSE @]
         /\ UNCHANGED peers
    ELSE UNCHANGED <<pcs, peers, streams>>

\* socket.on("ice-candidate"): the same lookup; addIceCandidate rejects on a
\* connection that is closed or has no remote description.
OnIceCandidate(c, p) ==
    LET i == cap[c].peers[p.userId] IN
    IF i # 0 /\ ~pcs[c][i].closed /\ pcs[c][i].remote # None
    THEN /\ pcs' = [pcs EXCEPT ![c][i].cands = @ + 1]
         /\ UNCHANGED <<peers, streams>>
    ELSE UNCHANGED <<pcs, peers, streams>>

\* socket.on("user-left-video"): close the link closed over, and set both maps
\* to the maps closed over, less the peer.
OnUserLeftVideo(c, p) ==
    LET i == cap[c].peers[p.userId] IN
    IF i # 0
    THEN /\ pcs' = [pcs EXCEPT ![c][i].closed = TRUE]
         /\ peers' = [peers EXCEPT ![c] = [cap[c].peers EXCEPT ![p.userId] = 0]]
         /\ streams' = [streams EXCEPT ![c] = cap[c].streams \ {p.userId}]
    ELSE UNCHANGED <<pcs, peers, streams>>

\* The client takes the next event of its socket; with the call closed no
\* handler is registered and the event is dropped.
CallReceive(c) ==
    /\ inbox[c] # <<>>
    /\ inbox' = [inbox EXCEPT ![c] = Tail(@)]
    /\ LET e == Head(inbox[c]) IN
       IF ~isOpen[c] THEN UNCHANGED <<pcs, peers, streams>>
       ELSE CASE e.ev = "user-joined-video" -> OnUserJoinedVideo(c, e.arg)
              [] e.ev = "video-offer" -> OnVideoOffer(c, e.arg)
              [] e.ev = "video-answer" -> OnVideoAnswer(c, e.arg)
              [] e.ev = "ice-candidate" -> OnIceCandidate(c, e.arg)
              [] e.ev = "user-left-video" -> OnUserLeftVideo(c, e.arg)
    /\ UNCHANGED <<relayVars, currentRoom, messages, roomMembers, http, upq, isOpen,
                   localStream, isAudioOnly, error, stopped, videoTracks, media, cap>>

\* The rest of the user-joined-video and video-offer handlers, after their
\* awaits: the descriptions are set on the handler's own connection object and
\* the offer or the answer is emitted; on a closed connection the first call
\* throws and the handler ends there.
Negotiate(c, i) ==
    /\ i \in 1..Len(pcs[c])
    /\ pcs[c][i].todo.kind # None
    /\ LET pc == pcs[c][i] IN
       IF pc.closed
       THEN /\ pcs' = [pcs EXCEPT ![c][i].todo = NoTodo]
            /\ UNCHANGED <<upq, streams>>
       ELSE IF pc.todo.kind = "offer"
       THEN /\ pcs' = [pcs EXCEPT ![c][i] = [pc EXCEPT !.local = "offer", !.todo = NoTodo]]
            /\ upq' = Send(upq, c, [ev |-> "video-offer", room |-> CallRoom,
                                    user |-> SessionUser[c], target |-> pc.peer,
                                    data |-> [type |-> "offer", tracks |-> pc.tracks # 0]])
            /\ UNCHANGED streams
       ELSE /\ pcs' = [pcs EXCEPT ![c][i] =
                   [pc EXCEPT !.remote = "offer", !.local = "answer", !.todo = NoTodo]]
            /\ streams' = [streams EXCEPT ![c] =
                   IF pc.todo.tracks THEN @ \cup {pc.peer} ELSE @]
            /\ upq' = Send(upq, c, [ev |-> "video-answer", room |-> CallRoom,
                                    user |-> SessionUser[c], target |-> pc.peer,
                                    data |-> [type |-> "answer", tracks |-> pc.tracks # 0]])
    /\ UNCHANGED <<relayVars, currentRoom, messages, roomMembers, http, inbox, isOpen,
                   localStream, isAudioOnly, error, stopped, videoTracks, media, peers, cap>>

\* peerConnection.onicecandidate: a connection with a local description
\* gathers a candidate and the client emits it.
OnIceGathered(c, i) ==
    /\ i \in 1..Len(pcs[c])
    /\ pcs[c][i].local # None
    /\ ~pcs[c][i].closed
    /\ pcs' = [pcs EXCEPT ![c][i].sent = @ + 1]
    /\ upq' = Send(upq, c, [ev |-> "ice-candidate", room |-> CallRoom,
                            user |-> SessionUser[c], target |-> pcs[c][i].peer,
                            data |-> [type |-> "candidate", tracks |-> FALSE]])
    /\ UNCHANGED <<relayVars, currentRoom, messages, roomMembers, http, inbox, isOpen,
                   localStream, isAudioOnly, error, stopped, videoTracks, media, peers,
                   streams, cap>>

\* The relay takes the next event of a call client and runs its handler; the
\* events it emits travel to the inboxes.
CallRelayReceive(c) ==
    /\ upq[c] # <<>>
    /\ upq' = [upq EXCEPT ![c] = Tail(@)]
    /\ LET e == Head(upq[c]) IN
       CASE e.ev = "identify" -> Identify(c, e.user)
         [] e.ev = "join-video-chat" -> JoinVideoChat(c, e.room, e.user)
         [] e.ev = "leave-video-chat" -> LeaveVideoChat(c, e.room, e.user)
         [] e.ev = "video-offer" -> VideoOffer(c, e.room, e.user, e.target, e.data)
         [] e.ev = "video-answer" -> VideoAnswer(c, e.room, e.user, e.target, e.data)
         [] e.ev = "ice-candidate" -> IceCandidate(c, e.room, e.user, e.target, e.data)
    /\ inbox' = EnqueueCall(inbox, out')
    /\ UNCHANGED <<currentRoom, messages, roomMembers, http, callVars>>

\* connectToSocket(userId) on a page with a VideoChat.
CallConnect(c) == ChatConnect(c) /\ UNCHANGED callVars

\* The handlers suspended at a storage call.
Pending == Len(joinTasks) + Len(sendTasks)

\* ------------------------------------------------- the presence specification
\* Connections identify, join and leave rooms and disconnect in any order;
\* the durable roster stays as the rooms' creation left it.
NextPresence ==
    \/ \E c \in PresenceConns : Connect(c)
          /\ UNCHANGED clientVars
    \/ \E c \in PresenceConns, u \in Users : Identify(c, u)
          /\ UNCHANGED clientVars
    \/ \E c \in PresenceConns, r \in RoomIds :
          Pending < MaxPending /\ JoinRoom(c, r)
          /\ UNCHANGED clientVars
    \/ \E i \in 1..MaxPending, res \in {"ok", "fail"} : FetchRoster(i, res)
          /\ UNCHANGED clientVars
    \/ \E i \in 1..MaxPending : JoinRoomResume(i)
          /\ UNCHANGED clientVars
    \/ \E c \in PresenceConns, r \in RoomIds : LeaveRoom(c, r)
          /\ UNCHANGED clientVars
    \/ \E c \in PresenceConns : Disconnect(c)
          /\ UNCHANGED clientVars

SpecPresence == Init /\ [][NextPresence]_vars

\* ------------------------------------------------- the snapshot specification
\* One room whose durable roster changes while connections join and leave it
\* and their roster fetches are pending.
NextSnapshot ==
    \/ \E c \in PresenceConns : Connect(c)
          /\ UNCHANGED clientVars
    \/ \E c \in PresenceConns, u \in Users : Identify(c, u)
          /\ UNCHANGED clientVars
    \/ \E c \in PresenceConns :
          Len(joinTasks) < MaxSnapshotTasks /\ JoinRoom(c, SnapshotRoom)
          /\ UNCHANGED clientVars
    \/ \E i \in 1..MaxSnapshotTasks, res \in {"ok", "fail"} : FetchRoster(i, res)
          /\ UNCHANGED clientVars
    \/ \E i \in 1..MaxSnapshotTasks : JoinRoomResume(i)
          /\ UNCHANGED clientVars
    \/ \E c \in PresenceConns : LeaveRoom(c, SnapshotRoom)
          /\ UNCHANGED clientVars
    \/ \E c \in PresenceConns : Disconnect(c)
          /\ UNCHANGED clientVars
    \/ \E u \in Users : RosterAdd(u, SnapshotRoom)
          /\ UNCHANGED clientVars
    \/ \E u \in Users : RosterRemove(u, SnapshotRoom)
          /\ UNCHANGED clientVars

SpecSnapshot == Init /\ [][NextSnapshot]_vars

\* ------------------------------------------------- the ordering specification
\* One room whose durable roster only grows while joins of it overlap: a
\* smaller fetched roster is an earlier one.
NextOrder ==
    \/ \E c \in PresenceConns : Connect(c)
          /\ UNCHANGED clientVars
    \/ \E c \in PresenceConns : Identify(c, SessionUser[c])
          /\ UNCHANGED clientVars
    \/ \E c \in PresenceConns :
          Len(joinTasks) < MaxOrderTasks /\ JoinRoom(c, SnapshotRoom)
          /\ UNCHANGED clientVars
    \/ \E i \in 1..MaxOrderTasks, res \in {"ok", "fail"} : FetchRoster(i, res)
          /\ UNCHANGED clientVars
    \/ \E i \in 1..MaxOrderTasks : JoinRoomResume(i)
          /\ UNCHANGED clientVars
    \/ \E c \in PresenceConns : LeaveRoom(c, SnapshotRoom)
          /\ UNCHANGED clientVars
    \/ \E u \in Users : RosterAdd(u, SnapshotRoom)
          /\ UNCHANGED clientVars

SpecOrder == Init /\ [][NextOrder]_vars

\* -------------------------------------------------- the message specification
\* Connections identify, join and leave rooms, submit messages and disconnect
\* while creates are pending.
NextMsg ==
    \/ \E c \in MsgConns : Connect(c)
          /\ UNCHANGED clientVars
    \/ \E c \in MsgConns : Identify(c, MsgUser)
          /\ UNCHANGED clientVars
    \/ \E c \in MsgConns, r \in RoomIds :
          Pending < MaxPending /\ JoinRoom(c, r)
          /\ UNCHANGED clientVars
    \/ \E i \in 1..MaxPending, res \in {"ok", "fail"} : FetchRoster(i, res)
          /\ UNCHANGED clientVars
    \/ \E i \in 1..MaxPending : JoinRoomResume(i)
          /\ UNCHANGED clientVars
    \/ \E c \in MsgConns, r \in RoomIds : LeaveRoom(c, r)
          /\ UNCHANGED clientVars
    \/ \E c \in MsgConns : Disconnect(c)
          /\ UNCHANGED clientVars
    \/ \E c \in MsgConns, r \in RoomIds :
          /\ Pending < MaxPending
          /\ Len(db) + Len(sendTasks) < MaxMessages
          /\ SendMessage(c, r, MsgUser, "hi")
          /\ UNCHANGED clientVars
    \/ \E i \in 1..MaxPending, res \in {"ok", "fail"} : PersistMessage(i, res)
          /\ UNCHANGED clientVars
    \/ \E i \in 1..MaxPending : SendResume(i)
          /\ UNCHANGED clientVars

SpecMsg == Init /\ [][NextMsg]_vars

\* --------------------------------------------- the send-order specification
\* Connections that stay joined to one room submit messages while earlier
\* submissions are still at their create.
NextSendOrder ==
    \/ \E c \in MsgConns : Connect(c)
          /\ UNCHANGED clientVars
    \/ \E c \in MsgConns : Identify(c, SessionUser[c])
          /\ UNCHANGED clientVars
    \/ \E c \in MsgConns :
          /\ joinTasks = <<>>
          /\ ChatChannel(ChatRoom) \notin sockRooms[c]
          /\ JoinRoom(c, ChatRoom)
          /\ UNCHANGED clientVars
    \/ \E i \in 1..MaxPending : FetchRoster(i, "ok")
          /\ UNCHANGED clientVars
    \/ \E i \in 1..MaxPending : JoinRoomResume(i)
          /\ UNCHANGED clientVars
    \/ \E c \in MsgConns :
          /\ ChatChannel(ChatRoom) \in sockRooms[c]
          /\ Len(db) + Len(sendTasks) < MaxSends
          /\ SendMessage(c, ChatRoom, SessionUser[c], "hi")
          /\ UNCHANGED clientVars
    \/ \E i \in 1..MaxSends, res \in {"ok", "fail"} : PersistMessage(i, res)
          /\ UNCHANGED clientVars
    \/ \E i \in 1..MaxSends : SendResume(i)
          /\ UNCHANGED clientVars

SpecSendOrder == Init /\ [][NextSendOrder]_vars

\* ----------------------------------------------------- the chat specification
\* Two clients of the chat page and the relay between them: they connect,
\* open the room, send and edit messages; requests and events are in flight.
NextChat ==
    \/ \E c \in ChatConns : ChatConnect(c) /\ UNCHANGED callVars
    \/ \E c \in ChatConns : ChatJoinRoom(c, ChatRoom) /\ UNCHANGED callVars
    \/ \E c \in ChatConns, res \in {"ok", "fail"} : HistoryFetch(c, res) /\ UNCHANGED callVars
    \/ \E c \in ChatConns : HistoryDone(c) /\ UNCHANGED callVars
    \/ \E c \in ChatConns :
          /\ Len(db) + Len(sendTasks) + Cardinality({d \in Conns : upq[d] # <<>>})
                < MaxChatMessages
          /\ ChatSend(c, "hi")
          /\ UNCHANGED callVars
    \/ \E c \in ChatConns, i \in 1..MaxChatMessages :
          /\ i <= Len(messages[c])
          /\ ~messages[c][i].isEdited
          /\ ChatEdit(c, i, "hi there")
          /\ UNCHANGED callVars
    \/ \E c \in ChatConns, res \in {"ok", "fail"} : PatchMessage(c, res) /\ UNCHANGED callVars
    \/ \E c \in ChatConns : ChatEditDone(c) /\ UNCHANGED callVars
    \/ \E c \in ChatConns : ChatReceive(c) /\ UNCHANGED callVars
    \/ \E c \in ChatConns : Pending < MaxPending /\ RelayReceive(c) /\ UNCHANGED callVars
    \/ \E i \in 1..MaxPending, res \in {"ok", "fail"} : FetchRoster(i, res) /\ Relayed /\ UNCHANGED upq /\ UNCHANGED callVars
    \/ \E i \in 1..MaxPending : JoinRoomResume(i) /\ Relayed /\ UNCHANGED upq /\ UNCHANGED callVars
    \/ \E i \in 1..MaxPending, res \in {"ok", "fail"} : PersistMessage(i, res) /\ Relayed /\ UNCHANGED upq /\ UNCHANGED callVars
    \/ \E i \in 1..MaxPending : SendResume(i) /\ Relayed /\ UNCHANGED upq /\ UNCHANGED callVars

SpecChat == Init /\ [][NextChat]_vars

\* ------------------------------------------------ the signaling specification
\* Three connections at the relay: they enter and leave the call channel of
\* two rooms, negotiate, and disconnect; one of them also identifies and
\* enters and leaves the chat channel of a room.
NextSignal ==
    \/ \E c \in Conns : Connect(c) /\ UNCHANGED clientVars
    \/ \E c \in SignalChatConns : Identify(c, SessionUser[c]) /\ UNCHANGED clientVars
    \/ \E c \in SignalChatConns :
          Pending < MaxPending /\ JoinRoom(c, ChatRoom) /\ UNCHANGED clientVars
    \/ \E i \in 1..MaxPending : FetchRoster(i, "ok") /\ UNCHANGED clientVars
    \/ \E i \in 1..MaxPending : JoinRoomResume(i) /\ UNCHANGED clientVars
    \/ \E c \in SignalChatConns : LeaveRoom(c, ChatRoom) /\ UNCHANGED clientVars
    \/ \E c \in Conns, r \in RoomIds :
          JoinVideoChat(c, r, SessionUser[c]) /\ UNCHANGED clientVars
    \/ \E c \in Conns, r \in RoomIds :
          LeaveVideoChat(c, r, SessionUser[c]) /\ UNCHANGED clientVars
    \/ \E c \in Conns, r \in RoomIds, t \in Users :
          VideoOffer(c, r, SessionUser[c], t, "offer") /\ UNCHANGED clientVars
    \/ \E c \in Conns, r \in RoomIds, t \in Users :
          VideoAnswer(c, r, SessionUser[c], t, "answer") /\ UNCHANGED clientVars
    \/ \E c \in Conns, r \in RoomIds, t \in Users :
          IceCandidate(c, r, SessionUser[c], t, "candidate") /\ UNCHANGED clientVars
    \/ \E c \in Conns : Disconnect(c) /\ UNCHANGED clientVars

SpecSignal == Init /\ [][NextSignal]_vars

\* ---------------------------------------------------- the media specification
\* One client opens and closes its VideoChat while the device check and the
\* stream acquisition answer in every way; with the error shown, the user
\* presses either button.
NextMedia ==
    \/ \E c \in MediaConns : CallConnect(c)
    \/ \E c \in MediaConns :
          /\ localStream[c] + Len(media[c]) < MaxStreams
          /\ OpenCall(c)
    \/ \E c \in MediaConns : Len(upq[c]) < MaxCallQueue /\ CloseCall(c)
    \/ \E c \in MediaConns, i \in 1..MaxStreams, dev \in {"av", "audio", "fail"} :
          MediaChecked(c, i, dev)
    \/ \E c \in MediaConns, i \in 1..MaxStreams, res \in {"ok", "fail"} :
          Len(upq[c]) < MaxCallQueue /\ MediaAcquired(c, i, res)
    \/ \E c \in MediaConns :
          /\ localStream[c] + Len(media[c]) < MaxStreams
          /\ Retry(c)
    \/ \E c \in MediaConns :
          /\ localStream[c] + Len(media[c]) < MaxStreams
          /\ TryAudioOnly(c)
    \/ \E c \in MediaConns : CallRelayReceive(c)

SpecMedia == Init /\ [][NextMedia]_vars

\* ----------------------------------------------------- the call specification
\* Two clients and the relay: each opens and closes its VideoChat, acquires
\* its media, and negotiates with whoever the relay announces.
NextCall ==
    \/ \E c \in CallConns : CallConnect(c)
    \/ \E c \in CallConns :
          /\ localStream[c] + Len(media[c]) < MaxStreams
          /\ OpenCall(c)
    \/ \E c \in CallConns : Len(upq[c]) < MaxCallQueue /\ CloseCall(c)
    \/ \E c \in CallConns, i \in 1..MaxStreams : MediaChecked(c, i, "av")
    \/ \E c \in CallConns, i \in 1..MaxStreams :
          Len(upq[c]) < MaxCallQueue /\ MediaAcquired(c, i, "ok")
    \/ \E c \in CallConns :
          /\ inbox[c] # <<>>
          /\ Head(inbox[c]).ev \in {"user-joined-video", "video-offer"} =>
                Len(pcs[c]) < MaxLinks
          /\ CallReceive(c)
    \/ \E c \in CallConns, i \in 1..MaxLinks :
          Len(upq[c]) < MaxCallQueue /\ Negotiate(c, i)
    \/ \E c \in CallConns :
          /\ CallRelayReceive(c)
          /\ \A d \in Conns : Len(inbox'[d]) <= MaxCallQueue

SpecCall == Init /\ [][NextCall]_vars

\* The candidates gathered so far on the links of all clients.
RECURSIVE SumSent(_)
SumSent(links) == IF links = <<>> THEN 0 ELSE Head(links).sent + SumSent(Tail(links))

CandidatesSent == SumSent(pcs["c1"] \o pcs["c2"] \o pcs["c3"])

\* ------------------------------------------------- the candidate specification
\* Two clients negotiate, one of them closing and opening its call again, and
\* their connections gather ICE candidates that the relay passes on.
NextIce ==
    \/ \E c \in CallConns : CallConnect(c)
    \/ \E c \in CallConns :
          /\ localStream[c] + Len(media[c]) < MaxStreams
          /\ OpenCall(c)
    \/ \E c \in IceClosers : Len(upq[c]) < MaxCallQueue /\ CloseCall(c)
    \/ \E c \in CallConns, i \in 1..MaxStreams : MediaChecked(c, i, "av")
    \/ \E c \in CallConns, i \in 1..MaxStreams :
          Len(upq[c]) < MaxCallQueue /\ MediaAcquired(c, i, "ok")
    \/ \E c \in CallConns :
          /\ inbox[c] # <<>>
          /\ Head(inbox[c]).ev \in {"user-joined-video", "video-offer"} =>
                Len(pcs[c]) < MaxLinks
          /\ CallReceive(c)
    \/ \E c \in CallConns, i \in 1..MaxLinks :
          Len(upq[c]) < MaxCallQueue /\ Negotiate(c, i)
    \/ \E c \in CallConns, i \in 1..MaxLinks :
          /\ Len(upq[c]) < MaxCallQueue
          /\ i \in 1..Len(pcs[c])
          /\ CandidatesSent < MaxCands
          /\ OnIceGathered(c, i)
    \/ \E c \in CallConns :
          /\ CallRelayReceive(c)
          /\ \A d \in Conns : Len(inbox'[d]) <= MaxCallQueue

SpecIce == Init /\ [][NextIce]_vars

\* ----------------------------------------------------- the edit specification
\* Connections join (one join at a time, with no create pending) and leave
\* rooms, messages are submitted to one room with any userId in their payload
\* and stored,
\* and any live connection, identified or not, reports an edit or a deletion
\* of any message id to any room.
NextEdit ==
    \/ \E c \in MsgConns : Connect(c)
          /\ UNCHANGED clientVars
    \/ \E c \in MsgConns : Identify(c, SessionUser[c])
          /\ UNCHANGED clientVars
    \/ \E c \in MsgConns, r \in RoomIds :
          Pending = 0 /\ JoinRoom(c, r)
          /\ UNCHANGED clientVars
    \/ \E i \in 1..MaxPending : FetchRoster(i, "ok")
          /\ UNCHANGED clientVars
    \/ \E i \in 1..MaxPending : JoinRoomResume(i)
          /\ UNCHANGED clientVars
    \/ \E c \in MsgConns, r \in RoomIds :
          ChatChannel(r) \in sockRooms[c] /\ LeaveRoom(c, r)
          /\ UNCHANGED clientVars
    \/ \E c \in MsgConns, u \in Users :
          /\ Pending < MaxPending
          /\ Len(db) + Len(sendTasks) < MaxMessages
          /\ SendMessage(c, ChatRoom, u, "hi")
          /\ UNCHANGED clientVars
    \/ \E i \in 1..MaxPending : PersistMessage(i, "ok")
          /\ UNCHANGED clientVars
    \/ \E i \in 1..MaxPending : SendResume(i)
          /\ UNCHANGED clientVars
    \/ \E c \in MsgConns, r \in RoomIds, mid \in 1..MaxMessages :
          MessageUpdated(c, r, mid, "hi there")
          /\ UNCHANGED clientVars
    \/ \E c \in MsgConns, r \in RoomIds, mid \in 1..MaxMessages :
          MessageDeleted(c, r, mid)
          /\ UNCHANGED clientVars

SpecEdit == Init /\ [][NextEdit]_vars

\* ---------------------------------------------------- the scope specification
\* Connections enter and leave chat rooms and the call of one room and send
\* an offer, with the roomId of join-room and leave-room taken from the wire.
NextScope ==
    \/ \E c \in PresenceConns : Connect(c)
          /\ UNCHANGED clientVars
    \/ \E c \in PresenceConns : Identify(c, SessionUser[c])
          /\ UNCHANGED clientVars
    \/ \E c \in PresenceConns, r \in WireRoomIds :
          Pending < MaxPending /\ JoinRoom(c, r)
          /\ UNCHANGED clientVars
    \/ \E i \in 1..MaxPending : FetchRoster(i, "ok")
          /\ UNCHANGED clientVars
    \/ \E i \in 1..MaxPending : JoinRoomResume(i)
          /\ UNCHANGED clientVars
    \/ \E c \in PresenceConns, r \in WireRoomIds : LeaveRoom(c, r)
          /\ UNCHANGED clientVars
    \/ \E c \in PresenceConns : JoinVideoChat(c, CallRoom, SessionUser[c])
          /\ UNCHANGED clientVars
    \/ \E c \in PresenceConns : LeaveVideoChat(c, CallRoom, SessionUser[c])
          /\ UNCHANGED clientVars
    \/ \E c \in PresenceConns :
          VideoOffer(c, CallRoom, SessionUser[c], Owner[CallRoom], "offer")
          /\ UNCHANGED clientVars

SpecScope == Init /\ [][NextScope]_vars

\* --------------------------------------------- the send-outcome specification
\* Connections join one room and submit messages, one submission of a
\* connection at a time; a create succeeds or fails, and a connection may
\* disconnect with its submission pending. A handler whose create has settled
\* is resumed: the event loop runs the continuation of a settled promise.
HasSubmission(c) == \E i \in 1..Len(sendTasks) : sendTasks[i].conn = c

\* The submission of connection c is resumed after its create settled.
ResumesSubmission(c) ==
    \E i \in 1..MaxSends :
        /\ i <= Len(sendTasks)
        /\ sendTasks[i].conn = c
        /\ SendResume(i)
        /\ UNCHANGED clientVars

NextSendOutcome ==
    \/ \E c \in MsgConns : Connect(c)
          /\ UNCHANGED clientVars
    \/ \E c \in MsgConns : Identify(c, SessionUser[c])
          /\ UNCHANGED clientVars
    \/ \E c \in MsgConns :
          /\ joinTasks = <<>>
          /\ ChatChannel(ChatRoom) \notin sockRooms[c]
          /\ JoinRoom(c, ChatRoom)
          /\ UNCHANGED clientVars
    \/ \E i \in 1..MaxPending : FetchRoster(i, "ok")
          /\ UNCHANGED clientVars
    \/ \E i \in 1..MaxPending : JoinRoomResume(i)
          /\ UNCHANGED clientVars
    \/ \E c \in MsgConns :
          /\ ~HasSubmission(c)
          /\ Len(db) + Len(sendTasks) < MaxSends
          /\ SendMessage(c, ChatRoom, SessionUser[c], "hi")
          /\ UNCHANGED clientVars
    \/ \E i \in 1..MaxSends, res \in {"ok", "fail"} : PersistMessage(i, res)
          /\ UNCHANGED clientVars
    \/ \E c \in MsgConns : ResumesSubmission(c)
    \/ \E c \in MsgConns : Disconnect(c)
          /\ UNCHANGED clientVars

SpecSendOutcome ==
    /\ Init
    /\ [][NextSendOutcome]_vars
    /\ \A c \in MsgConns : WF_vars(ResumesSubmission(c))

\* ------------------------------------------------ the member-list specification
\* Two clients of the chat page connect, open one room and disconnect while
\* the room gains members; every presence event travels to the clients, which
\* apply it to the member list they show.
NextMembers ==
    \/ \E c \in ChatConns : ChatConnect(c) /\ UNCHANGED callVars
    \/ \E c \in ChatConns : ChatJoinRoom(c, ChatRoom) /\ UNCHANGED callVars
    \/ \E c \in ChatConns : HistoryFetch(c, "ok") /\ UNCHANGED callVars
    \/ \E c \in ChatConns : HistoryDone(c) /\ UNCHANGED callVars
    \/ \E u \in Users : RosterAdd(u, ChatRoom) /\ UNCHANGED clientVars
    \/ \E c \in ChatConns :
          /\ Pending < MaxPending
          /\ PresenceRelayReceive(c)
          /\ \A d \in Conns : Len(inbox'[d]) <= MaxQueue
          /\ UNCHANGED callVars
    \/ \E i \in 1..MaxPending : FetchRoster(i, "ok") /\ UNCHANGED clientVars
    \/ \E i \in 1..MaxPending :
          /\ PresenceRelayResume(i)
          /\ \A d \in Conns : Len(inbox'[d]) <= MaxQueue
          /\ UNCHANGED callVars
    \/ \E c \in ChatConns : PresenceReceive(c) /\ UNCHANGED callVars
    \/ \E c \in ChatConns :
          /\ ChatDisconnect(c)
          /\ \A d \in Conns : Len(inbox'[d]) <= MaxQueue
          /\ UNCHANGED callVars

SpecMembers == Init /\ [][NextMembers]_vars

\* ==================================================================== claims
\* How many events named ev with payload u the connection d receives from
\* the event list o.
ReceivedCount(o, d, ev, u) ==
    Cardinality({i \in 1..Len(o) : o[i].ev = ev /\ d \in o[i].to /\ o[i].arg = u})

\* The events of o addressed to the chat channel of room r.
RoomEvents(o, r) ==
    {i \in 1..Len(o) : o[i].scope = "room" /\ o[i].ch = ChatChannel(r)}

\* The rooms whose presence set holds u.
Holding(m, u) == {r \in RoomIds : u \in OnlineGet(m, r)}

\* C1: every room's presence set is a subset of the room's durable roster.
C1_PresenceSubsetOfRoster ==
    \A i \in 1..Len(onlineUsers) :
        onlineUsers[i].users \subseteq roster[onlineUsers[i].room]

\* C2: an identity is in a room's presence set if and only if a live
\* connection bound to it is joined to the room.
C2_PresenceIffJoined ==
    \A r \in RoomIds, u \in Users :
        (u \in OnlineGet(onlineUsers, r)) <=>
        (\E c \in Conns : /\ conn[c] = "live"
                          /\ userSockets[c] = u
                          /\ ChatChannel(r) \in sockRooms[c])

\* C3 as stated: when a connection bound to X and joined to rooms A and B
\* disconnects, every connection still joined to one of them receives
\* exactly one user_offline(X), and X is in neither presence set afterwards.
C3_ExactlyOneOffline ==
    [][\A c \in Conns :
         (/\ conn[c] = "live" /\ conn'[c] = "closed"
          /\ userSockets[c] # None
          /\ \A r \in RoomIds : ChatChannel(r) \in sockRooms[c])
         => \A r \in RoomIds :
               /\ \A d \in InRoom(sockRooms', ChatChannel(r)) :
                      ReceivedCount(out', d, "user_offline", userSockets[c]) = 1
               /\ userSockets[c] \notin OnlineGet(onlineUsers', r)]_vars

\* C3 as amended: a disconnect of a connection bound to X emits, for each room
\* whose presence set holds X, exactly one user_offline(X) to the connections
\* still joined to that room, and then one user_offline(X) to every live
\* connection; so a connection receives one per such room it is joined to
\* plus the global one, and X is in no presence set afterwards.
C3_OfflinePerRoomAndGlobal ==
    [][\A c \in Conns :
         (conn[c] = "live" /\ conn'[c] = "closed" /\ userSockets[c] # None)
         => LET X == userSockets[c]
                held == Holding(onlineUsers, X)
            IN /\ Len(out') = Cardinality(held) + 1
               /\ \A i \in 1..Len(out') :
                      out'[i].ev = "user_offline" /\ out'[i].arg = X
               /\ \A r \in RoomIds :
                      /\ Cardinality(RoomEvents(out', r)) = IF r \in held THEN 1 ELSE 0
                      /\ \A i \in RoomEvents(out', r) :
                             out'[i].to = InRoom(sockRooms', ChatChannel(r))
                      /\ X \notin OnlineGet(onlineUsers', r)
               /\ out'[Len(out')].scope = "all"
               /\ out'[Len(out')].to = Live(conn')
               /\ \A d \in Live(conn') :
                      ReceivedCount(out', d, "user_offline", X) =
                      1 + Cardinality({r \in held : ChatChannel(r) \in sockRooms[d]})]_vars

\* A disconnect of a connection whose identity was present in two rooms has
\* run, and a connection joined to both has received three user_offline.
C3_Witness ==
    /\ last.op = "disconnect" /\ last.ok
    /\ Len(out) = 3
    /\ \E d \in Conns :
          /\ conn[d] = "live"
          /\ \A r \in RoomIds : ChatChannel(r) \in sockRooms[d]
          /\ ReceivedCount(out, d, "user_offline", out[1].arg) = 3

\* C6: a second join-room(R) right after the first, from the same identified
\* connection, leaves every presence set (and so its size) as the first left
\* it; and of two room_members_update broadcasts for the same room, one right
\* after the other, the second equals the first when both fetched the same
\* roster.
C6_SecondJoinChangesNothing ==
    [][/\ (last'.op = "join-room" /\ last'.ok /\ last'.rep)
          => onlineUsers' = onlineUsers
       /\ (/\ last'.op = "join-room-done" /\ last'.ok /\ last'.rep
           /\ DOMAIN out'[1].arg = DOMAIN out[1].arg)
          => out' = out]_vars

\* Two joins of the same room by the only identified connection have been
\* answered by two broadcasts, one right after the other.
C6_Witness ==
    /\ last.op = "join-room-done" /\ last.ok /\ last.rep
    /\ joinTasks = <<>>
    /\ Cardinality({c \in Conns : userSockets[c] # None}) = 1
    /\ \E c \in Conns : userSockets[c] # None /\ ChatChannel(last.room) \in sockRooms[c]
    /\ out[1].arg = Snapshot(roster[last.room], onlineUsers, last.room)

\* C4: a submission whose create succeeded is broadcast as one new-message
\* carrying the stored record (with its storage-assigned id) to exactly the
\* connections joined to the room at that moment, the sender included when it
\* is joined and no connection outside the room; a submission whose create
\* failed is broadcast to nobody.
C4_BroadcastPersistedToRoom ==
    last.op = "send-message-done" =>
        IF last.ok
        THEN /\ Len(out) = 1
             /\ out[1].ev = "new-message"
             /\ out[1].arg.id \in 1..Len(db)
             /\ db[out[1].arg.id] = out[1].arg
             /\ out[1].arg.room = last.room
             /\ out[1].to = {d \in Conns : ChatChannel(last.room) \in sockRooms[d]}
             /\ (ChatChannel(last.room) \in sockRooms[last.conn] => last.conn \in out[1].to)
        ELSE \A i \in 1..Len(out) : out[i].ev # "new-message"

\* A persisted message has been broadcast to its sender while another live
\* connection, joined only to the other room, received nothing.
C4_Witness ==
    /\ last.op = "send-message-done" /\ last.ok
    /\ last.conn \in out[1].to
    /\ \E d \in Conns :
          /\ conn[d] = "live" /\ sockRooms[d] # {}
          /\ ChatChannel(last.room) \notin sockRooms[d]
          /\ d \notin out[1].to

\* C5: a submission whose create fails emits one error event, to the
\* submitting connection alone (which receives it when it is still
\* connected); no step of a submission emits anything else, and none changes
\* a presence set or a connection's identity binding.
C5_FailureOnlyToSubmitter ==
    [][/\ (last'.op = "send-message-done" /\ ~last'.ok)
          => /\ Len(out') = 1
             /\ out'[1].ev = "error"
             /\ out'[1].to \subseteq {last'.conn}
             /\ (conn[last'.conn] = "live" => out'[1].to = {last'.conn})
             /\ UNCHANGED <<onlineUsers, userSockets, sockRooms>>
       /\ (last'.op \in {"send-message", "persist-message"})
          => /\ out' = <<>>
             /\ UNCHANGED <<onlineUsers, userSockets, sockRooms>>]_vars

\* A failed submission has been reported to its sender while another
\* connection is joined to the room it was for, whose presence set is not empty.
C5_Witness ==
    /\ last.op = "send-message-done" /\ ~last.ok
    /\ out[1].to = {last.conn}
    /\ \E d \in Conns \ {last.conn} : ChatChannel(last.room) \in sockRooms[d]
    /\ OnlineGet(onlineUsers, last.room) # {}

\* ---------------------------------------------------------------------- C7
\* The connections subscribed to the chat channel of room r.
Subscribers(r) == {d \in Conns : ChatChannel(r) \in sockRooms[d]}

\* The relay takes a message_updated request of connection c in this step.
RelaysUpdate(c) ==
    /\ upq[c] # <<>>
    /\ Head(upq[c]).ev = "message_updated"
    /\ upq'[c] = Tail(upq[c])

\* Client c handles a message_updated event in this step.
HandlesUpdate(c) ==
    /\ inbox[c] # <<>>
    /\ Head(inbox[c]).ev = "message_updated"
    /\ inbox'[c] = Tail(inbox[c])

CallScope(sr, r) == {d \in Conns : VideoChannel(r) \in sr[d]}

HandlesUserJoined(c) ==
    /\ isOpen[c]
    /\ inbox[c] # <<>>
    /\ Head(inbox[c]).ev = "user-joined-video"
    /\ inbox'[c] = Tail(inbox[c])

\* C8: when a client with an open call and a local stream handles
\* user-joined-video for an identity P it holds no link for, it then holds a
\* link for P that carries the tracks of its local stream and on which the
\* offer is being made, on the first opening of the call as on later ones.
C8_PeerAvailableStartsOffer ==
    [][\A c \in CallConns :
          LET P == Head(inbox[c]).arg.userId IN
          (HandlesUserJoined(c) /\ localStream[c] # 0 /\ peers[c][P] = 0) =>
              /\ peers'[c][P] # 0
              /\ pcs'[c][peers'[c][P]].tracks = localStream[c]
              /\ pcs'[c][peers'[c][P]].todo.kind = "offer"
      ]_vars

\* ---------------------------------------------------------------------- C9
\* The link client c holds for identity u has both descriptions set.
Connected(c, u) ==
    /\ peers[c][u] # 0
    /\ ~pcs[c][peers[c][u]].closed
    /\ pcs[c][peers[c][u]].local # None
    /\ pcs[c][peers[c][u]].remote # None

\* The clients taking part in the call of the room: call open, media
\* acquired, and in the call scope.
Participants ==
    {c \in CallConns : isOpen[c] /\ localStream[c] # 0
                       /\ c \in CallScope(sockRooms, CallRoom)}

\* Nothing is in flight or pending anywhere.
Settled ==
    \A c \in CallConns :
        /\ upq[c] = <<>>
        /\ inbox[c] = <<>>
        /\ media[c] = <<>>
        /\ \A i \in 1..Len(pcs[c]) : pcs[c][i].todo.kind = None

\* C9: once two or more participants have joined the call one after another
\* and everything has settled, every participant holds a connected link (local
\* and remote description set) toward every other participant.
C9_SettledCallIsFullMesh ==
    (Settled /\ Cardinality(Participants) >= 2) =>
        \A c \in Participants, d \in Participants :
            c # d => Connected(c, SessionUser[d])

\* --------------------------------------------------------------------- C11
\* The relay takes a signaling request of connection c in this step.
RelaysSignal(c) ==
    /\ upq[c] # <<>>
    /\ Head(upq[c]).ev \in SignalEvents
    /\ upq'[c] = Tail(upq[c])

\* Client c handles a signaling event in this step, its call open.
HandlesSignal(c) ==
    /\ isOpen[c]
    /\ inbox[c] # <<>>
    /\ Head(inbox[c]).ev \in SignalEvents
    /\ inbox'[c] = Tail(inbox[c])

\* C11: every relayed video-offer, video-answer and ice-candidate carries the
\* identity it is meant for, as the sender gave it; and a client that receives
\* its own message back leaves its links as they are and sends nothing.
C11_SignalingIsTargeted ==
    [][/\ \A c \in CallConns : RelaysSignal(c) =>
            \A i \in 1..Len(out') :
                /\ "targetUserId" \in DOMAIN out'[i].arg
                /\ out'[i].arg.targetUserId = Head(upq[c]).target
       /\ \A c \in CallConns :
            (HandlesSignal(c) /\ Head(inbox[c]).arg.userId = SessionUser[c]) =>
                /\ pcs'[c] = pcs[c]
                /\ peers'[c] = peers[c]
                /\ upq'[c] = upq[c]
      ]_vars


\* --------------------------------------------------------------------- C12
\* C12: when a connection in the call of room R disconnects, it is out of R's
\* call scope after the step, and the events of that same step hold a
\* user-left-video that reaches every connection remaining in R's call.
C12_DisconnectLeavesCall ==
    [][\A d \in Conns, r \in RoomIds :
          (/\ last'.op = "disconnect" /\ last'.conn = d /\ conn[d] = "live"
           /\ d \in CallScope(sockRooms, r)) =>
              /\ d \notin CallScope(sockRooms', r)
              /\ \A e \in CallScope(sockRooms', r) :
                    \E i \in 1..Len(out') :
                        /\ out'[i].ev = "user-left-video"
                        /\ e \in out'[i].to
      ]_vars


\* --------------------------------------------------------------------- C13
\* The handlers the claim calls room or call operations.
RoomOrCallOps ==
    {"join-room", "leave-room", "send-message", "message_updated",
     "message_deleted", "join-video-chat", "leave-video-chat",
     "video-offer", "video-answer", "ice-candidate"}

\* C13: a room or call operation from a connection with no bound identity
\* leaves the channels, the presence map, the pending handlers and the stored
\* messages as they were, and emits nothing.
C13_UnboundConnectionHasNoEffect ==
    [][(last'.op \in RoomOrCallOps /\ userSockets[last'.conn] = None) =>
          /\ UNCHANGED <<sockRooms, presVars, msgVars>>
          /\ out' = <<>>
      ]_vars


\* --------------------------------------------------------------------- C14
\* The device check of acquisition i of client c settles in this step with
\* the microphone but no camera.
ChecksAudioOnly(c, i) ==
    /\ i \in 1..Len(media[c])
    /\ media[c][i].phase = "check"
    /\ Len(media'[c]) = Len(media[c])
    /\ media'[c][i].phase = "acquire"
    /\ ~media'[c][i].video

\* Acquisition i of client c, started without a camera, gets its stream in
\* this step.
AcquiresAudioOnly(c, i) ==
    /\ i \in 1..Len(media[c])
    /\ media[c][i].phase = "acquire"
    /\ ~media[c][i].video
    /\ media'[c] = RemoveAt(media[c], i)
    /\ localStream'[c] # localStream[c]

\* The join-video-chat events client c has emitted and the relay has not taken.
JoinsQueued(q, c) == SelectSeq(q[c], LAMBDA e : e.ev = "join-video-chat")

\* C14: an acquisition that finds the microphone but no camera records
\* audio-only mode when its device check settles, emitting nothing yet; when
\* its stream arrives the error is cleared, the local stream is a new one
\* without a video track, the recorded mode is left alone, and exactly one
\* join-video-chat is emitted, its audio-only flag true.
C14_CameraFailureGivesAudioOnlyCall ==
    [][\A c \in MediaConns, i \in 1..MaxStreams :
          /\ ChecksAudioOnly(c, i) =>
                /\ isAudioOnly'[c]
                /\ upq'[c] = upq[c]
                /\ localStream'[c] = localStream[c]
          /\ AcquiresAudioOnly(c, i) =>
                /\ ~error'[c]
                /\ localStream'[c] \notin videoTracks'[c] \cup {0}
                /\ isAudioOnly'[c] = isAudioOnly[c]
                /\ Len(upq'[c]) = Len(upq[c]) + 1
                /\ upq'[c][Len(upq'[c])].ev = "join-video-chat"
                /\ upq'[c][Len(upq'[c])].isAudioOnly
                /\ SubSeq(upq'[c], 1, Len(upq[c])) = upq[c]
      ]_vars

\* The client's first opening found no camera: audio-only mode is recorded,
\* no error is shown, the local stream has no video track, and the one
\* join-video-chat emitted says audio only.
C14_Witness ==
    /\ isOpen["c1"]
    /\ media["c1"] = <<>>
    /\ localStream["c1"] = 1
    /\ videoTracks["c1"] = {}
    /\ isAudioOnly["c1"]
    /\ ~error["c1"]
    /\ Len(JoinsQueued(upq, "c1")) = 1
    /\ Len(upq["c1"]) = 2
    /\ upq["c1"][2].ev = "join-video-chat"
    /\ upq["c1"][2].isAudioOnly


\* --------------------------------------------------------------------- C15
\* The device check of acquisition i of client c fails in this step: no
\* microphone.
CheckFails(c, i) ==
    /\ i \in 1..Len(media[c])
    /\ media[c][i].phase = "check"
    /\ media'[c] = RemoveAt(media[c], i)

\* Acquisition i of client c ends in this step, and it is one the Retry
\* button started: it ran the device check before it asked for its stream.
RetryEnds(c, i) ==
    /\ i \in 1..Len(media[c])
    /\ media[c][i].by = "retry"
    /\ media'[c] = RemoveAt(media[c], i)

\* C15: a failed microphone check leaves the client with the error set, no
\* local stream and nothing emitted; from then on the error is cleared, and a
\* join-video-chat emitted, only by the end of an acquisition that the Retry
\* button started and that ran the device check first.
C15_UnavailableUntilFullRetry ==
    [][\A c \in MediaConns :
          /\ \A i \in 1..MaxStreams :
                CheckFails(c, i) =>
                    /\ error'[c]
                    /\ localStream'[c] = 0
                    /\ upq'[c] = upq[c]
          /\ (error[c] /\ ~error'[c]) => \E i \in 1..MaxStreams : RetryEnds(c, i)
          /\ (error[c] /\ Len(JoinsQueued(upq', c)) > Len(JoinsQueued(upq, c))) =>
                \E i \in 1..MaxStreams : RetryEnds(c, i)
      ]_vars


\* --------------------------------------------------------------------- C16
\* C16: a join-video-chat for room R puts the connection in R's call scope and
\* emits one user-joined-video, carrying the joiner's identity, to exactly the
\* connections that were in R's call scope before, the joiner left out.
C16_JoinToldToOthersOnly ==
    [][last'.op = "join-video-chat" =>
          /\ last'.conn \in CallScope(sockRooms', last'.room)
          /\ Len(out') = 1
          /\ out'[1].ev = "user-joined-video"
          /\ out'[1].arg.userId = SessionUser[last'.conn]
          /\ out'[1].to = CallScope(sockRooms, last'.room) \ {last'.conn}
      ]_vars

\* c1 joined the call of room A where c2 already was: c2 alone is told; c3,
\* live and in the call of room B, and c1 itself are not.
C16_Witness ==
    /\ last.op = "join-video-chat"
    /\ last.conn = "c1"
    /\ last.room = "A"
    /\ out[1].to = {"c2"}
    /\ out[1].arg.userId = "u1"
    /\ VideoChannel("B") \in sockRooms["c3"]
    /\ CallScope(sockRooms, "A") = {"c1", "c2"}

\* --------------------------------------------------------------------- C17
\* C17: a leave-video-chat for room R puts the connection out of R's call
\* scope and emits one user-left-video, carrying its identity, to exactly the
\* connections that remain in R's call scope; and no event of the call of R
\* reaches a connection that is not in R's call scope.
C17_LeaveToldToRemaining ==
    [][/\ last'.op = "leave-video-chat" =>
            /\ last'.conn \notin CallScope(sockRooms', last'.room)
            /\ Len(out') = 1
            /\ out'[1].ev = "user-left-video"
            /\ out'[1].arg.userId = SessionUser[last'.conn]
            /\ out'[1].to = CallScope(sockRooms', last'.room)
            /\ out'[1].to = CallScope(sockRooms, last'.room) \ {last'.conn}
       /\ \A i \in 1..Len(out') :
            out'[i].ev \in CallEvents =>
                out'[i].to \subseteq CallScope(sockRooms', last'.room)
      ]_vars

\* c1 left the call of room A where c2 and c3 stay: those two are told.
C17_Witness ==
    /\ last.op = "leave-video-chat"
    /\ last.conn = "c1"
    /\ last.room = "A"
    /\ out[1].to = {"c2", "c3"}
    /\ out[1].arg.userId = "u1"
    /\ CallScope(sockRooms, "A") = {"c2", "c3"}


\* --------------------------------------------------------------------- C18
\* Two room_members_update broadcasts for the same room, one right after the
\* other, that a connection joined to the room receives both.
BroadcastsInARow ==
    /\ last.op = "join-room-done" /\ last.ok
    /\ last'.op = "join-room-done" /\ last'.ok
    /\ last'.room = last.room
    /\ out[1].to \cap out'[1].to # {}

\* C18: of two snapshots of a room delivered one right after the other, with
\* the presence sets untouched in between, the second never shows a roster
\* that is strictly earlier than the roster the first shows.
C18_SnapshotsInRosterOrder ==
    [][BroadcastsInARow =>
          ~(/\ DOMAIN out'[1].arg \subseteq DOMAIN out[1].arg
            /\ DOMAIN out'[1].arg # DOMAIN out[1].arg)
      ]_vars


\* --------------------------------------------------------------------- C19
\* The handler of submission i resumes in this step and broadcasts its record.
BroadcastsSubmission(i) ==
    /\ i \in 1..Len(sendTasks)
    /\ sendTasks[i].st = "ok"
    /\ sendTasks' = RemoveAt(sendTasks, i)
    /\ last'.op = "send-message-done"
    /\ out'[1].ev = "new-message"
    /\ out'[1].arg = sendTasks[i].rec

\* Submission j came before submission i from the same connection for the
\* same room, is stored, and its broadcast is still to come.
EarlierStillToCome(j, i) ==
    /\ j < i
    /\ sendTasks[j].conn = sendTasks[i].conn
    /\ sendTasks[j].room = sendTasks[i].room
    /\ sendTasks[j].st = "ok"

\* C19: when the new-message of a submission reaches the connections joined
\* to its room, no earlier submission of the same connection for that room is
\* stored with its new-message still to be sent.
C19_NewMessagesInSubmissionOrder ==
    [][\A i \in 1..MaxSends :
          (BroadcastsSubmission(i) /\ out'[1].to # {}) =>
              \A j \in 1..MaxSends : ~EarlierStillToCome(j, i)
      ]_vars


\* --------------------------------------------------------------------- C20
\* The create of submission i is answered in this step and stores its record.
StoresSubmission(i) ==
    /\ i \in 1..Len(sendTasks)
    /\ sendTasks[i].st = "await"
    /\ Len(sendTasks') = Len(sendTasks)
    /\ sendTasks'[i].st = "ok"
    /\ \A j \in 1..Len(sendTasks) : j # i => sendTasks'[j] = sendTasks[j]
    /\ db' = Append(db, sendTasks'[i].rec)

\* The stored submissions whose new-message is still to be sent.
StoredPending == {i \in 1..Len(sendTasks) : sendTasks[i].st = "ok"}

\* C20: a submission adds one pending handler and no record; the store grows
\* only when the create of a waiting submission is answered, by that one
\* record, under an id no other record has; a new-message is emitted only by
\* the handler of a stored submission, once, carrying its record, and that
\* handler is gone afterwards, so no record is broadcast a second time.
C20_AtMostOnceStoredAndSent ==
    [][/\ last'.op = "send-message" =>
            /\ db' = db
            /\ Len(sendTasks') = Len(sendTasks) + 1
            /\ sendTasks'[Len(sendTasks')].st = "await"
       /\ db' # db => \E i \in 1..MaxSends : StoresSubmission(i)
       /\ \A i, j \in 1..Len(db') : db'[i].id = db'[j].id => i = j
       /\ \A i, j \in StoredPending : sendTasks[i].rec = sendTasks[j].rec => i = j
       /\ (\E k \in 1..Len(out') : out'[k].ev = "new-message") =>
            /\ Len(out') = 1
            /\ \E i \in 1..MaxSends : BroadcastsSubmission(i)
            /\ \A i \in 1..Len(sendTasks') : sendTasks'[i].rec # out'[1].arg
            /\ \E i \in 1..Len(db) : db[i] = out'[1].arg
      ]_vars

\* Two submissions of c1 are stored as two records, and the second broadcast
\* has just gone to both connections of the room: each record once.
C20_Witness ==
    /\ Len(db) = 2
    /\ sendTasks = <<>>
    /\ last.op = "send-message-done" /\ last.ok /\ last.rep
    /\ last.conn = "c1"
    /\ Len(out) = 1
    /\ out[1].ev = "new-message"
    /\ out[1].to = {"c1", "c2"}


\* --------------------------------------------------------------------- C21
\* C21: the presence map has no entry whose set is empty.
C21_NoEmptyPresenceSet ==
    \A i \in 1..Len(onlineUsers) : onlineUsers[i].users # {}

\* A disconnect has just taken the last identity out of two rooms, with a
\* user_offline for each, and both entries are gone from the map.
C21_Witness ==
    /\ last.op = "disconnect" /\ last.ok
    /\ Len(out) = 3
    /\ out[1].ch # out[2].ch
    /\ onlineUsers = <<>>


\* --------------------------------------------------------------------- C22
\* The join-room handler of pending join i resumes in this step with the
\* roster it fetched.
ResumesJoin(i) ==
    /\ i \in 1..Len(joinTasks)
    /\ joinTasks[i].st = "ok"
    /\ joinTasks' = RemoveAt(joinTasks, i)
    /\ last'.op = "join-room-done"
    /\ last'.room = joinTasks[i].room

\* C22: a roster fetch hands its handler the durable roster of the room as it
\* is then; and every room_members_update emitted lists exactly the members a
\* resuming handler fetched for that room, each online exactly when its
\* identity is in the room's presence set at the step of the emission.
C22_SnapshotIsRosterWithPresence ==
    [][/\ (last'.op = "fetch-roster" /\ last'.ok) =>
            \E i \in 1..Len(joinTasks) :
                /\ joinTasks[i].st = "await"
                /\ joinTasks'[i].st = "ok"
                /\ joinTasks'[i].members = roster[joinTasks[i].room]
       /\ \A k \in 1..Len(out') :
            out'[k].ev = "room_members_update" =>
                \E i \in 1..Len(joinTasks) :
                    /\ ResumesJoin(i)
                    /\ out'[k].ch = ChatChannel(joinTasks[i].room)
                    /\ DOMAIN out'[k].arg = joinTasks[i].members
                    /\ \A u \in joinTasks[i].members :
                          out'[k].arg[u] <=>
                              u \in OnlineGet(onlineUsers', joinTasks[i].room)
      ]_vars

\* A snapshot of room A has gone out while nobody holds the room any more:
\* the joiner left during its roster fetch, and both members show offline.
C22_Witness ==
    /\ last.op = "join-room-done" /\ last.ok
    /\ Len(out) = 1
    /\ out[1].ev = "room_members_update"
    /\ DOMAIN out[1].arg = {"u1", "u2"}
    /\ ~out[1].arg["u1"] /\ ~out[1].arg["u2"]
    /\ onlineUsers = <<>>
    /\ roster[SnapshotRoom] = {"u1", "u2"}


\* --------------------------------------------------------------------- C23
\* C23: an identify binds its connection to the identity it names, whatever
\* was bound before, and touches no other connection's binding and no
\* presence set; when that identity was already bound, the bindings are as
\* they were.
C23_IdentifyLastWriteWins ==
    [][last'.op = "identify" =>
          /\ userSockets'[last'.conn] = out'[1].arg
          /\ out'[1].arg \in Users
          /\ \A d \in Conns \ {last'.conn} : userSockets'[d] = userSockets[d]
          /\ onlineUsers' = onlineUsers
          /\ userSockets[last'.conn] = out'[1].arg => userSockets' = userSockets
      ]_vars

\* The only bound connection has just identified as u2, while room A's
\* presence set still holds u1 from its earlier binding.
C23_Witness ==
    /\ last.op = "identify"
    /\ userSockets[last.conn] = "u2"
    /\ \A d \in Conns \ {last.conn} : userSockets[d] = None
    /\ "u1" \in OnlineGet(onlineUsers, "A")


\* --------------------------------------------------------------------- C24
\* C24: after the disconnect handler the connection is bound to no identity;
\* when it was bound to none, or to one that no presence set holds, the
\* presence map is as it was and no user_offline goes to a room.
C24_DisconnectReleasesBinding ==
    [][\A c \in Conns :
          (last'.op = "disconnect" /\ last'.conn = c /\ conn[c] = "live") =>
              /\ userSockets'[c] = None
              /\ (\/ userSockets[c] = None
                  \/ Holding(onlineUsers, userSockets[c]) = {}) =>
                     /\ onlineUsers' = onlineUsers
                     /\ \A k \in 1..Len(out') : out'[k].scope # "room"
      ]_vars

\* A bound connection whose identity no presence set held has disconnected:
\* the one user_offline is the global one, and the other identity's presence
\* is still there.
C24_Witness ==
    /\ last.op = "disconnect" /\ last.ok
    /\ Len(out) = 1
    /\ out[1].scope = "all"
    /\ userSockets[last.conn] = None
    /\ onlineUsers # <<>>


\* --------------------------------------------------------------------- C25
\* Client c handles a user-left-video event in this step, its call open.
HandlesUserLeft(c) ==
    /\ isOpen[c]
    /\ inbox[c] # <<>>
    /\ Head(inbox[c]).ev = "user-left-video"
    /\ inbox'[c] = Tail(inbox[c])

\* C25: a client that handles user-left-video for an identity it holds a link
\* for closes that link and takes the identity out of its link map and its
\* stream map; when it holds no link for the identity, its links and both
\* maps stay as they are.
C25_PeerLeftTearsDownLink ==
    [][\A c \in CallConns :
          HandlesUserLeft(c) =>
              LET P == Head(inbox[c]).arg.userId IN
              IF peers[c][P] # 0
              THEN /\ pcs'[c][peers[c][P]].closed
                   /\ peers'[c][P] = 0
                   /\ P \notin streams'[c]
              ELSE /\ pcs'[c] = pcs[c]
                   /\ peers'[c] = peers[c]
                   /\ streams'[c] = streams[c]
      ]_vars


\* --------------------------------------------------------------------- C26
\* Client c handles an ice-candidate event in this step, its call open.
HandlesIce(c) ==
    /\ isOpen[c]
    /\ inbox[c] # <<>>
    /\ Head(inbox[c]).ev = "ice-candidate"
    /\ inbox'[c] = Tail(inbox[c])

\* C26: a client that handles an ice-candidate from a remote identity it holds
\* a link for adds the candidate to that link; when it holds none, its links
\* and both maps stay as they are.
C26_CandidateGoesToHeldLink ==
    [][\A c \in CallConns :
          HandlesIce(c) =>
              LET P == Head(inbox[c]).arg.userId IN
              IF P = SessionUser[c] THEN TRUE
              ELSE IF peers[c][P] # 0
              THEN pcs'[c][peers[c][P]].cands = pcs[c][peers[c][P]].cands + 1
              ELSE /\ pcs'[c] = pcs[c]
                   /\ peers'[c] = peers[c]
                   /\ streams'[c] = streams[c]
      ]_vars


\* --------------------------------------------------------------------- C27
\* The connections of client c for identity P that are not closed.
OpenLinks(c, P) == {i \in 1..Len(pcs[c]) : pcs[c][i].peer = P /\ ~pcs[c][i].closed}

\* C27: a client has at most one open peer connection per remote identity.
C27_OneOpenLinkPerPeer ==
    \A c \in CallConns :
        \A P \in Users \ {SessionUser[c]} : Cardinality(OpenLinks(c, P)) <= 1


\* --------------------------------------------------------------------- C28
\* The VideoChat of client c is closed in this step.
ClosesCall(c) == isOpen[c] /\ ~isOpen'[c]

\* C28: when a client's call is closed, every stream acquired since it was
\* opened has its tracks stopped, every link put in the link map since then
\* is closed, and leave-video-chat is emitted.
C28_CloseReleasesEverything ==
    [][\A c \in CallConns :
          ClosesCall(c) =>
              /\ \A k \in (cap[c].localStream + 1)..localStream[c] : k \in stopped'[c]
              /\ \A u \in Users :
                    (peers[c][u] # 0 /\ peers[c][u] # cap[c].peers[u]) =>
                        pcs'[c][peers[c][u]].closed
              /\ Len(upq'[c]) = Len(upq[c]) + 1
              /\ upq'[c][Len(upq'[c])].ev = "leave-video-chat"
      ]_vars


\* --------------------------------------------------------------------- C29
\* Client c handles a video-offer event in this step, its call open.
HandlesOffer(c) ==
    /\ isOpen[c]
    /\ inbox[c] # <<>>
    /\ Head(inbox[c]).ev = "video-offer"
    /\ inbox'[c] = Tail(inbox[c])

\* The handler that holds link i of client c answers the offer in this step.
Answers(c, i) ==
    /\ i \in 1..Len(pcs[c])
    /\ pcs[c][i].todo.kind = "answer"
    /\ ~pcs[c][i].closed
    /\ pcs'[c][i].todo.kind = None

\* C29: a client with an open call and a local stream that handles a
\* video-offer from a remote identity P it holds no link for then holds a link
\* for P that carries the tracks of its local stream and on which the answer
\* is being made; the answering step sets the offer as remote and the answer
\* as local description and emits one video-answer, addressed to P.
C29_OfferIsAnswered ==
    [][\A c \in CallConns :
          /\ LET P == Head(inbox[c]).arg.userId IN
             (/\ HandlesOffer(c) /\ localStream[c] # 0
              /\ P # SessionUser[c] /\ peers[c][P] = 0) =>
                 /\ peers'[c][P] # 0
                 /\ pcs'[c][peers'[c][P]].tracks = localStream[c]
                 /\ pcs'[c][peers'[c][P]].todo.kind = "answer"
          /\ \A i \in 1..MaxLinks :
                Answers(c, i) =>
                    /\ pcs'[c][i].remote = "offer"
                    /\ pcs'[c][i].local = "answer"
                    /\ Len(upq'[c]) = Len(upq[c]) + 1
                    /\ upq'[c][Len(upq'[c])].ev = "video-answer"
                    /\ upq'[c][Len(upq'[c])].target = pcs[c][i].peer
      ]_vars


\* --------------------------------------------------------------------- C30
\* C30: when a join-room handler resumes from a failed roster fetch, the one
\* event it emits is an error, to a single connection.
C30_FetchFailureReported ==
    [][(last'.op = "join-room-done" /\ ~last'.ok) =>
          /\ Len(out') = 1
          /\ out'[1].ev = "error"
          /\ Cardinality(out'[1].to) <= 1
      ]_vars


\* --------------------------------------------------------------------- C31
\* C31: a message_updated or message_deleted from any live connection, for
\* room R, emits one event of the same name carrying the message id (and the
\* new content, for an update) to exactly the connections joined to R, whoever
\* wrote the message and whether or not the sender is identified or in R; the
\* step changes no presence set, identity binding, subscription or stored
\* record.
C31_EditRelayedToRoomUnchecked ==
    [][last'.op \in {"message_updated", "message_deleted"} =>
          /\ Len(out') = 1
          /\ out'[1].ev = last'.op
          /\ out'[1].to = Subscribers(last'.room)
          /\ out'[1].arg.messageId \in 1..MaxMessages
          /\ (last'.op = "message_updated" =>
                 out'[1].arg = [messageId |-> out'[1].arg.messageId,
                                content |-> "hi there"])
          /\ (last'.op = "message_deleted" => DOMAIN out'[1].arg = {"messageId"})
          /\ UNCHANGED <<onlineUsers, userSockets, sockRooms, db, sendTasks>>
      ]_vars

\* A connection that is not in the room and is not bound to the author has
\* reported the deletion of a stored message, and the other connection, joined
\* to the room, is the one that received it.
C31_Witness ==
    /\ last.op = "message_deleted"
    /\ Len(out) = 1
    /\ out[1].arg.messageId \in 1..Len(db)
    /\ db[out[1].arg.messageId].room = last.room
    /\ userSockets[last.conn] # db[out[1].arg.messageId].user
    /\ last.conn \notin out[1].to
    /\ out[1].to # {}


\* --------------------------------------------------------------------- C32
\* C32: whatever roomId a join-room or leave-room carries, the step (and the
\* rest of the join after its fetch) leaves the call participant set of every
\* room as it was; and a join-video-chat or leave-video-chat leaves every
\* presence set and every room's chat subscribers as they were.
C32_CallScopeApartFromChat ==
    [][/\ last'.op \in {"join-room", "join-room-done", "leave-room"} =>
            \A r \in RoomIds : CallScope(sockRooms', r) = CallScope(sockRooms, r)
       /\ last'.op \in {"join-video-chat", "leave-video-chat"} =>
            /\ onlineUsers' = onlineUsers
            /\ \A r \in RoomIds :
                  InRoom(sockRooms', ChatChannel(r)) = InRoom(sockRooms, ChatChannel(r))
      ]_vars


\* --------------------------------------------------------------------- C33
\* An offer of client c for the identity of client d is on its way: emitted
\* and not yet relayed, or relayed and not yet handled by d.
OfferInFlight(c, d) ==
    \/ \E i \in 1..Len(upq[c]) :
          upq[c][i].ev = "video-offer" /\ upq[c][i].target = SessionUser[d]
    \/ \E i \in 1..Len(inbox[d]) :
          inbox[d][i].ev = "video-offer" /\ inbox[d][i].arg.userId = SessionUser[c]

\* C33: between two participants of a call offers go one way: never is an
\* offer of the one for the other on its way while an offer of the other for
\* the one is.
C33_OffersFlowOneWay ==
    \A c \in CallConns : \A d \in CallConns \ {c} :
        ~(OfferInFlight(c, d) /\ OfferInFlight(d, c))


\* --------------------------------------------------------------------- C34
\* The create of the submission of connection c has settled and its handler
\* has not resumed yet.
CreateSettled(c) ==
    \E i \in 1..Len(sendTasks) : sendTasks[i].conn = c /\ sendTasks[i].st # "await"

\* The handler of a submission of connection c has just ended.
SubmissionEnded(c) == last.op = "send-message-done" /\ last.conn = c

\* C34: a submission whose create has settled is eventually ended by its
\* handler, and the step that ends it emits exactly one event: a new-message
\* to the room when the create succeeded, an error addressed to the submitting
\* connection alone when it failed.
C34_EverySubmissionEndsOneWay ==
    /\ [][last'.op = "send-message-done" =>
             /\ Len(out') = 1
             /\ IF last'.ok
                THEN /\ out'[1].ev = "new-message"
                     /\ out'[1].to = Subscribers(last'.room)
                ELSE /\ out'[1].ev = "error"
                     /\ out'[1].to \subseteq {last'.conn}
                     /\ (conn[last'.conn] = "live" => out'[1].to = {last'.conn})
         ]_vars
    /\ \A c \in MsgConns : CreateSettled(c) ~> SubmissionEnded(c)

\* A submission has ended in an error to its sender while the submission of
\* the other connection, stored, has still to be broadcast.
C34_Witness ==
    /\ last.op = "send-message-done" /\ ~last.ok
    /\ Len(out) = 1 /\ out[1].ev = "error" /\ out[1].to = {last.conn}
    /\ \E d \in MsgConns \ {last.conn} : CreateSettled(d)
    /\ Len(db) = 1


\* --------------------------------------------------------------------- C35
\* C35: the record a create stores for a submission of a connection that has
\* an identity binding has that identity as its author, and so has the
\* new-message broadcast for it.
C35_AuthorIsBoundIdentity ==
    [][/\ (last'.op = "persist-message" /\ last'.ok /\ userSockets[last'.conn] # None)
            => db'[Len(db')].user = userSockets[last'.conn]
       /\ (last'.op = "send-message-done" /\ last'.ok /\ userSockets[last'.conn] # None)
            => out'[1].arg.user = userSockets[last'.conn]
      ]_vars


\* --------------------------------------------------------------------- C36
\* C36: no client has a link keyed by its own identity, in its peers map or
\* among the connection objects it created, and no client has an answer to
\* its own identity queued.
C36_NoLinkToSelf ==
    \A c \in CallConns :
        /\ peers[c][SessionUser[c]] = 0
        /\ \A i \in 1..Len(pcs[c]) : pcs[c][i].peer # SessionUser[c]
        /\ \A i \in 1..Len(upq[c]) :
              upq[c][i].ev = "video-answer" => upq[c][i].target # SessionUser[c]


\* --------------------------------------------------------------------- C37
\* Client c has its VideoChat closed and nothing of it is pending: no media
\* acquisition, no event on its way to the relay, no event on its way to a
\* client.
ClosedAndSettled(c) ==
    /\ ~isOpen[c]
    /\ media[c] = <<>>
    /\ upq[c] = <<>>
    /\ \A d \in Conns : inbox[d] = <<>>

\* C37: a client whose VideoChat is closed, with nothing of it pending, is
\* not in the call participant set of the room.
C37_ClosedClientIsOutOfCall ==
    \A c \in MediaConns : ClosedAndSettled(c) => c \notin CallScope(sockRooms, CallRoom)


\* --------------------------------------------------------------------- C38
\* C38: when a user-left-video is delivered to somebody, the connection whose
\* leave-video-chat caused it was in the call participant set of the room
\* right before.
C38_LeftOnlyAfterJoined ==
    [][\A i \in 1..Len(out') :
          (out'[i].ev = "user-left-video" /\ out'[i].to # {}) =>
              /\ last'.op = "leave-video-chat"
              /\ userSockets[last'.conn] = out'[i].arg.userId
              /\ last'.conn \in CallScope(sockRooms, last'.room)
      ]_vars


\* --------------------------------------------------------------------- C39
\* Nothing is on its way: no event to the relay or to a client, no join-room
\* suspended at its fetch.
AllDelivered ==
    /\ \A d \in Conns : upq[d] = <<>> /\ inbox[d] = <<>>
    /\ joinTasks = <<>>

\* C39: with nothing on its way, the online flag a connected client shows for
\* each member of the room it has open is that member's presence in the
\* relay's presence set of the room.
C39_FlagsMatchPresence ==
    AllDelivered =>
        \A c \in ChatConns :
            (conn[c] = "live" /\ currentRoom[c] # None) =>
                \A u \in DOMAIN roomMembers[c] :
                    roomMembers[c][u] = (u \in OnlineGet(onlineUsers, currentRoom[c]))


\* --------------------------------------------------------------------- C40
\* The ids of the messages in a client's list.
ListIds(list) == {list[i].id : i \in 1..Len(list)}

\* C40: in a client's message list no message id appears twice, and the step
\* that puts the fetched history of the room into the list takes no message
\* of that room out of it.
C40_ListHasEachMessageOnce ==
    /\ [](\A c \in ChatConns : \A i, j \in 1..Len(messages[c]) :
              messages[c][i].id = messages[c][j].id => i = j)
    /\ [][\A c \in ChatConns :
              (http[c].kind = "history" /\ http'[c] = NoRequest
                 /\ http[c].room = currentRoom[c]) =>
                  {m \in ListIds(messages[c]) : db[m].room = currentRoom[c]}
                      \subseteq ListIds(messages'[c])]_vars

====
